---------------------------- MODULE Spec2Model ----------------------------
(***************************************************************************)
(* A model of spansy's HTTP span parser (src/src/http/span.rs) and of the  *)
(* Requests / Responses iterators (src/src/http/mod.rs).                   *)
(*                                                                         *)
(* Buffers are sequences of bytes (ASCII codes).  A position p is a        *)
(* 0-based index as in the Rust code, so byte p of buffer b is b[p + 1]    *)
(* and the Rust slice b[s..e] is Slice(b, s, e).                           *)
(*                                                                         *)
(* The head tokenizer is the httparse crate, which the repository calls    *)
(* at span.rs:26 and span.rs:115.  It is modelled byte by byte on the      *)
(* sub-slice src[offset..] it is given, with positions relative to that    *)
(* sub-slice, and get_span_range converts them back to positions in src.   *)
(*                                                                         *)
(* usize is scaled down to USIZE_BITS bits so that values next to          *)
(* usize::MAX can be written in a buffer of a few dozen bytes.             *)
(***************************************************************************)
EXTENDS Integers, Sequences, FiniteSets, TLC

VARIABLES
    src,        \* the source buffer (Bytes)
    input,      \* how the buffer was put together (the caller's knowledge)
    offset,     \* the offset handed to parse_*_from_bytes
    res,        \* the value returned by the last parse call
    pos,        \* Requests.pos / Responses.pos
    items,      \* what the iterator's next() has returned so far, in order
    op,         \* the last operation that ran
    call,       \* the arguments of the last accessor call on a parsed value
    out         \* what that accessor call returned

vars == <<src, input, offset, res, pos, items, op, call, out>>

---------------------------------------------------------------------------
(* Bytes *)

CR == 13
LF == 10
SP == 32
HT == 9
COLON == 58
PLUS == 43
MINUS == 45
NONUTF8 == 255

CRLF == <<CR, LF>>
Digit0 == 48

IsDigit(c) == c >= 48 /\ c <= 57
IsUpper(c) == c >= 65 /\ c <= 90
IsLower(c) == c >= 97 /\ c <= 122

\* u8::to_ascii_lowercase / to_ascii_uppercase
to_ascii_lowercase(c) == IF IsUpper(c) THEN c + 32 ELSE c
to_ascii_uppercase(c) == IF IsLower(c) THEN c - 32 ELSE c

LowerSeq(s) == [i \in 1..Len(s) |-> to_ascii_lowercase(s[i])]
UpperSeq(s) == [i \in 1..Len(s) |-> to_ascii_uppercase(s[i])]

\* A comparison that tells letter cases apart
eq_ignore_ascii_case_exact(a, b) == a = b

\* str::eq_ignore_ascii_case
eq_ignore_ascii_case(a, b) ==
    /\ Len(a) = Len(b)
    /\ \A i \in 1..Len(a) : to_ascii_lowercase(a[i]) = to_ascii_lowercase(b[i])

\* std::str::from_utf8(..).is_ok().  The only byte >= 0x80 the inputs use
\* is 0xFF, which occurs in no UTF-8 encoding, so a slice is valid UTF-8
\* exactly when all its bytes are ASCII.
IsUtf8(s) == \A i \in 1..Len(s) : s[i] < 128

\* The Rust slice b[s..e]
Slice(b, s, e) == SubSeq(b, s + 1, e)

Min(a, b) == IF a < b THEN a ELSE b

\* slice.windows(n).position(|w| w == pat): the least start of a window of n
\* bytes equal to pat, or -1 (None).  A window never equals a pattern of
\* another length.
WindowsPosition(b, n, pat) ==
    LET S == {i \in 0..(Len(b) - n) : SubSeq(b, i + 1, i + n) = pat}
    IN  IF S = {} THEN -1 ELSE CHOOSE i \in S : \A j \in S : i <= j

\* The literals of the source
GET == <<71, 69, 84>>
POST == <<80, 79, 83, 84>>
HTTP1_ == <<72, 84, 84, 80, 47, 49, 46>>
TRANSFER_ENCODING ==
    <<84, 114, 97, 110, 115, 102, 101, 114, 45, 69, 110, 99, 111, 100, 105, 110, 103>>
CONTENT_LENGTH ==
    <<67, 111, 110, 116, 101, 110, 116, 45, 76, 101, 110, 103, 116, 104>>

---------------------------------------------------------------------------
(* usize *)

USIZE_BITS == 16
USIZE_MAX == 2 ^ USIZE_BITS - 1

\* u16::to_string / usize::to_string: decimal, no leading zeros
RECURSIVE to_string(_)
to_string(n) ==
    IF n < 10 THEN <<Digit0 + n>>
    ELSE Append(to_string(n \div 10), Digit0 + (n % 10))

\* str::parse::<usize>() (core::num from_str_radix, radix 10, unsigned):
\* an empty string is an error; a lone sign is an error; one leading '+' is
\* skipped; a '-' is no digit; every other byte must be a digit; a value
\* above usize::MAX is an error.  -1 stands for Err.
RECURSIVE parse_digits(_, _, _)
parse_digits(s, i, acc) ==
    IF i > Len(s) THEN acc
    ELSE IF ~IsDigit(s[i]) THEN -1
    ELSE LET v == acc * 10 + (s[i] - Digit0)
         IN  IF v > USIZE_MAX THEN -1 ELSE parse_digits(s, i + 1, v)

parse_usize(s) ==
    IF Len(s) = 0 THEN -1
    ELSE IF s[1] \in {PLUS, MINUS} /\ Len(s) = 1 THEN -1
    ELSE IF s[1] = PLUS THEN parse_digits(s, 2, 0)
    ELSE parse_digits(s, 1, 0)

---------------------------------------------------------------------------
(* The head tokenizer (httparse) *)

MAX_HEADERS == 128

Partial == [t |-> "Partial"]
\* A slice b[s..e] the tokenizer hands out: a pointer into the buffer it was
\* given (in_src), or a static string that lies outside it
Sl(s, e) == [s |-> s, e |-> e, in_src |-> TRUE]
Error(e) == [t |-> "Error", e |-> e]

\* httparse's character classes
is_token(c) ==
    \/ IsDigit(c) \/ IsUpper(c) \/ IsLower(c)
    \/ c \in {33, 35, 36, 37, 38, 39, 42, 43, 45, 46, 94, 95, 96, 124, 126}

is_uri_token(c) ==
    /\ c >= 33 /\ c <= 126
    /\ c \notin {34, 60, 62, 92, 94, 96, 123, 124, 125}

is_header_value_token(c) == c = HT \/ (c >= 32 /\ c <= 126) \/ c >= 128

\* The first position q >= p whose byte is outside the class, or Len(b)
RECURSIVE ScanToken(_, _)
ScanToken(b, p) ==
    IF p < Len(b) /\ is_token(b[p + 1]) THEN ScanToken(b, p + 1) ELSE p

RECURSIVE ScanUri(_, _)
ScanUri(b, p) ==
    IF p < Len(b) /\ is_uri_token(b[p + 1]) THEN ScanUri(b, p + 1) ELSE p

RECURSIVE ScanWs(_, _)
ScanWs(b, p) ==
    IF p < Len(b) /\ b[p + 1] \in {SP, HT} THEN ScanWs(b, p + 1) ELSE p

RECURSIVE ScanValue(_, _)
ScanValue(b, p) ==
    IF p < Len(b) /\ is_header_value_token(b[p + 1]) THEN ScanValue(b, p + 1) ELSE p

\* The end of value[s..e] with trailing SP / HT trimmed
RECURSIVE TrimEnd(_, _, _)
TrimEnd(b, s, e) ==
    IF e > s /\ b[e] \in {SP, HT} THEN TrimEnd(b, s, e - 1) ELSE e

\* skip_empty_lines: CRLF and bare LF before the first line are skipped
RECURSIVE skip_empty_lines(_, _)
skip_empty_lines(b, p) ==
    IF p >= Len(b) THEN Partial
    ELSE IF b[p + 1] = CR THEN
        IF p + 1 >= Len(b) THEN Partial
        ELSE IF b[p + 2] = LF THEN skip_empty_lines(b, p + 2)
        ELSE Error("NewLine")
    ELSE IF b[p + 1] = LF THEN skip_empty_lines(b, p + 1)
    ELSE [t |-> "Complete", p |-> p]

\* newline!: CRLF or a bare LF
newline(b, p, e) ==
    IF p >= Len(b) THEN Partial
    ELSE IF b[p + 1] = CR THEN
        IF p + 1 >= Len(b) THEN Partial
        ELSE IF b[p + 2] = LF THEN [t |-> "Complete", p |-> p + 2]
        ELSE Error(e)
    ELSE IF b[p + 1] = LF THEN [t |-> "Complete", p |-> p + 1]
    ELSE Error(e)

\* parse_token / parse_method: a non-empty token ended by one space.  The
\* slice is b[s..e]; p is the position after the space.
parse_token(b, p) ==
    IF p >= Len(b) THEN Partial
    ELSE IF ~is_token(b[p + 1]) THEN Error("Token")
    ELSE LET q == ScanToken(b, p + 1)
         IN  IF q >= Len(b) THEN Partial
             ELSE IF b[q + 1] = SP THEN [t |-> "Complete", s |-> p, e |-> q, p |-> q + 1]
             ELSE Error("Token")

\* parse_uri: a non-empty run of URI bytes ended by one space
parse_uri(b, p) ==
    LET q == ScanUri(b, p)
    IN  IF q >= Len(b) THEN Partial
        ELSE IF b[q + 1] # SP THEN Error("Token")
        ELSE IF q = p THEN Error("Token")
        ELSE [t |-> "Complete", s |-> p, e |-> q, p |-> q + 1]

\* parse_version: "HTTP/1.0" or "HTTP/1.1"; with fewer than 8 bytes left, a
\* prefix of "HTTP/1." is Partial and anything else an error
parse_version(b, p) ==
    LET n == Len(b) - p
    IN  IF n >= 8 THEN
            IF Slice(b, p, p + 7) = HTTP1_ /\ b[p + 8] \in {48, 49}
            THEN [t |-> "Complete", p |-> p + 8]
            ELSE Error("Version")
        ELSE IF Slice(b, p, Len(b)) = SubSeq(HTTP1_, 1, Min(n, 7)) THEN Partial
        ELSE Error("Version")

\* parse_code: exactly three digits, read as a u16
parse_code(b, p) ==
    IF \E i \in 1..3 : p + i <= Len(b) /\ ~IsDigit(b[p + i])
           /\ \A j \in 1..(i - 1) : IsDigit(b[p + j])
    THEN Error("Status")
    ELSE IF p + 3 > Len(b) THEN Partial
    ELSE [t |-> "Complete",
          code |-> (b[p + 1] - Digit0) * 100 + (b[p + 2] - Digit0) * 10 + (b[p + 3] - Digit0),
          p |-> p + 3]

is_reason_byte(c) == c = HT \/ c = SP \/ (c >= 33 /\ c <= 126) \/ c >= 128

RECURSIVE ScanReason(_, _)
ScanReason(b, p) ==
    IF p < Len(b) /\ is_reason_byte(b[p + 1]) THEN ScanReason(b, p + 1) ELSE p

\* parse_reason: the bytes up to the line end.  A reason holding a byte
\* >= 0x80 is replaced by the static "", which is no slice of the buffer.
reason_end(b, p, q, nl) ==
    IF nl.t # "Complete" THEN nl
    ELSE [t |-> "Complete", p |-> nl.p,
          reason |-> [s |-> p, e |-> q, in_src |-> IsUtf8(Slice(b, p, q))]]

reason_line(b, p, q) ==
    IF q >= Len(b) THEN Partial
    ELSE IF b[q + 1] \notin {CR, LF} THEN Error("Status")
    ELSE reason_end(b, p, q, newline(b, q, "Status"))

parse_reason(b, p) == reason_line(b, p, ScanReason(b, p))

\* parse_headers_iter: the header lines and the empty line that ends the
\* head.  hs collects the [name, value] slices; head_end is the position
\* after the empty line.  The steps of one header line: the name up to the
\* colon at q, the whitespace up to r, the value up to its line end at v.
RECURSIVE parse_headers(_, _, _)

header_done(b, name, value, nl, hs) ==
    IF nl.t # "Complete" THEN nl
    ELSE parse_headers(b, nl.p, Append(hs, [name |-> name, value |-> value]))

header_value_end(b, name, r, v, hs) ==
    IF v >= Len(b) THEN Partial
    ELSE header_done(b, name, Sl(r, TrimEnd(b, r, v)), newline(b, v, "HeaderValue"), hs)

header_value(b, name, r, hs) ==
    IF r >= Len(b) THEN Partial
    ELSE IF b[r + 1] \in {CR, LF}
    \* an empty value: a zero-length slice at the line end
    THEN header_done(b, name, Sl(r, r), newline(b, r, "HeaderValue"), hs)
    ELSE IF ~is_header_value_token(b[r + 1]) THEN Error("HeaderValue")
    ELSE header_value_end(b, name, r, ScanValue(b, r), hs)

header_name(b, p, q, hs) ==
    IF q >= Len(b) THEN Partial
    ELSE IF b[q + 1] # COLON THEN Error("HeaderName")
    ELSE header_value(b, Sl(p, q), ScanWs(b, q + 1), hs)

parse_headers(b, p, hs) ==
    IF p >= Len(b) THEN Partial
    ELSE IF b[p + 1] = CR THEN
        IF p + 1 >= Len(b) THEN Partial
        ELSE IF b[p + 2] = LF THEN [t |-> "Complete", head_end |-> p + 2, headers |-> hs]
        ELSE Error("NewLine")
    ELSE IF b[p + 1] = LF THEN [t |-> "Complete", head_end |-> p + 1, headers |-> hs]
    ELSE IF ~is_token(b[p + 1]) THEN Error("HeaderName")
    ELSE IF Len(hs) >= MAX_HEADERS THEN Error("TooManyHeaders")
    ELSE header_name(b, p, ScanToken(b, p + 1), hs)

\* httparse::Request::parse: empty lines, method, target, version, line
\* end, headers
request_headers(b, m, u, h) ==
    IF h.t # "Complete" THEN h
    ELSE [t |-> "Complete", head_end |-> h.head_end, headers |-> h.headers,
          method |-> Slice(b, m.s, m.e), path |-> Sl(u.s, u.e)]

request_newline(b, m, u, n) ==
    IF n.t # "Complete" THEN n ELSE request_headers(b, m, u, parse_headers(b, n.p, <<>>))

request_version(b, m, u, v) ==
    IF v.t # "Complete" THEN v ELSE request_newline(b, m, u, newline(b, v.p, "NewLine"))

request_uri(b, m, u) ==
    IF u.t # "Complete" THEN u ELSE request_version(b, m, u, parse_version(b, u.p))

request_method(b, m) ==
    IF m.t # "Complete" THEN m ELSE request_uri(b, m, parse_uri(b, m.p))

request_start(b, s) ==
    IF s.t # "Complete" THEN s ELSE request_method(b, parse_token(b, s.p))

httparse_request(b) == request_start(b, skip_empty_lines(b, 0))

\* httparse::Response::parse: empty lines, version, space, code, then a
\* space and the reason, or a line end.  Without a space after the code
\* the reason is the static "", which is no slice of the buffer.
response_headers(c, r, h) ==
    IF h.t # "Complete" THEN h
    ELSE [t |-> "Complete", head_end |-> h.head_end, headers |-> h.headers,
          code |-> c.code, reason |-> r.reason]

response_reason(b, c, r) ==
    IF r.t # "Complete" THEN r ELSE response_headers(c, r, parse_headers(b, r.p, <<>>))

no_reason(nl) ==
    IF nl.t # "Complete" THEN nl
    ELSE [t |-> "Complete", p |-> nl.p, reason |-> [s |-> 0, e |-> 0, in_src |-> FALSE]]

response_code(b, c) ==
    IF c.t # "Complete" THEN c
    ELSE IF c.p >= Len(b) THEN Partial
    ELSE IF b[c.p + 1] = SP THEN response_reason(b, c, parse_reason(b, c.p + 1))
    ELSE response_reason(b, c, no_reason(newline(b, c.p, "Status")))

response_version(b, v) ==
    IF v.t # "Complete" THEN v
    ELSE IF v.p >= Len(b) THEN Partial
    ELSE IF b[v.p + 1] # SP THEN Error("Version")
    ELSE response_code(b, parse_code(b, v.p + 1))

response_start(b, s) ==
    IF s.t # "Complete" THEN s ELSE response_version(b, parse_version(b, s.p))

httparse_response(b) == response_start(b, skip_empty_lines(b, 0))

---------------------------------------------------------------------------
(* Spans (src/src/lib.rs) and the HTTP span parser (src/src/http/span.rs) *)

Ok(v) == [tag |-> "Ok", val |-> v]
Err(e) == [tag |-> "Err", err |-> e]
Panic(m) == [tag |-> "Panic", msg |-> m]

None == <<>>
Some(v) == <<v>>

Range(s, e) == [start |-> s, end |-> e]

\* RangeSet::from(Range): an empty range gives the empty set
RangeSetFrom(r) == IF r.start < r.end THEN <<r>> ELSE <<>>

\* RangeSet::len: the number of indices
RECURSIVE RangeSetLen(_)
RangeSetLen(rs) ==
    IF rs = <<>> THEN 0 ELSE (rs[1].end - rs[1].start) + RangeSetLen(Tail(rs))

\* The RangeSet of a set of indices: its maximal runs, in order
RECURSIVE RangeSetOf(_)
RunEnd(I, a) == CHOOSE b \in (a + 1)..(a + Cardinality(I)) : (a..(b - 1)) \subseteq I /\ b \notin I
RangeSetOf(I) ==
    IF I = {} THEN <<>>
    ELSE LET a == CHOOSE x \in I : \A y \in I : x <= y
         IN  <<Range(a, RunEnd(I, a))>> \o RangeSetOf(I \ (a..(RunEnd(I, a) - 1)))

\* The indices of a RangeSet
IndicesOf(rs) == UNION {rs[k].start..(rs[k].end - 1) : k \in 1..Len(rs)}

\* RangeSet::difference
difference(a, b) == RangeSetOf(IndicesOf(a) \ IndicesOf(b))

\* Span::new_bytes / Span::new_str / Span::new_from_str: the span holds the
\* bytes src[range] and the index set of the range.  Their assertions are
\* the *Panics predicates below.
new_span(s, r) == [data |-> Slice(s, r.start, r.end), indices |-> RangeSetFrom(r)]

\* Span::new_bytes panics when the range ends after the source, and
\* Bytes::slice when the range starts after its end
new_bytes_panics(s, r) == r.end > Len(s) \/ r.start > r.end

\* Span::new_str panics on a range outside the source or on invalid UTF-8
new_str_panics(s, r) ==
    r.end > Len(s) \/ r.start > r.end \/ ~IsUtf8(Slice(s, r.start, r.end))

\* Span::len
span_len(sp) == RangeSetLen(sp.indices)

\* helpers::get_span_range: the tokenizer was given src[offset..], so a
\* slice at s..e of it lies at offset+s..offset+e of src; a slice that does
\* not point into src fails the assertion.
get_span_range_in_slice(off, sl) == Range(sl.s, sl.e)
get_span_range(off, sl) == Range(off + sl.s, off + sl.e)
get_span_range_panics(sl) == ~sl.in_src

\* from_header: the header span runs from the name to the first CRLF found
\* from the end of the value, inclusive
header_spans(s, name_range, value_range, crlf_idx) ==
    IF crlf_idx = -1 THEN Panic("CRLF is present in a valid header")
    ELSE Ok([span |-> new_span(s, Range(name_range.start, value_range.end + crlf_idx + 2)),
             name |-> new_span(s, name_range),
             value |-> new_span(s, value_range)])

from_header(s, off, h) ==
    header_spans(s, get_span_range(off, h.name), get_span_range(off, h.value),
                 WindowsPosition(Slice(s, off + h.value.e, Len(s)), 2, CRLF))

\* A lookup that tells letter cases apart
headers_with_name_exact(headers, name) ==
    LET Test(h) == eq_ignore_ascii_case_exact(h.name.data, name)
    IN  SelectSeq(headers, Test)

\* A lookup that stops at the first header it finds
headers_with_name_first(headers, name) ==
    LET Test(h) == eq_ignore_ascii_case(h.name.data, name)
    IN  SubSeq(SelectSeq(headers, Test), 1, Min(1, Len(SelectSeq(headers, Test))))

\* Request::headers_with_name / Response::headers_with_name
headers_with_name(headers, name) ==
    LET Test(h) == eq_ignore_ascii_case(h.name.data, name)
    IN  SelectSeq(headers, Test)

\* The Content-Length branch of request_body_len / response_body_len:
\* from_utf8 of the value, then parse::<usize>()
content_length_parsed(n) ==
    IF n = -1 THEN Err("failed to parse Content-Length value") ELSE Ok(n)

content_length_value(h) ==
    IF ~IsUtf8(h.value.data) THEN Err("Utf8Error")
    ELSE content_length_parsed(parse_usize(h.value.data))

\* The branches after the status code: Transfer-Encoding, Content-Length,
\* neither
body_len_of(te, cl, neither) ==
    IF te # <<>> THEN Err("Transfer-Encoding not supported yet")
    ELSE IF cl # <<>> THEN content_length_value(cl[1])
    ELSE neither

\* request_body_len
request_body_len(request) ==
    body_len_of(headers_with_name(request.headers, TRANSFER_ENCODING),
                headers_with_name(request.headers, CONTENT_LENGTH),
                Ok(0))

\* A status test that forgets 304
IsBodyless_without_304(code) == (code >= 100 /\ code <= 199) \/ code = 204

\* response_body_len: 100..=199 | 204 | 304
IsBodyless(code) == (code >= 100 /\ code <= 199) \/ code = 204 \/ code = 304

\* A response without either header taken as a response without a body
ZeroLength == Ok(0)

\* response_body_len: neither header
NoLength ==
    Err("A response with a body must contain either a Content-Length or Transfer-Encoding header")

response_body_len_code(response, code) ==
    IF code = -1 THEN Panic("code is valid utf-8")
    ELSE IF IsBodyless(code) THEN Ok(0)
    ELSE body_len_of(headers_with_name(response.headers, TRANSFER_ENCODING),
                     headers_with_name(response.headers, CONTENT_LENGTH),
                     NoLength)

response_body_len(response) ==
    response_body_len_code(response, parse_usize(response.status.code.data))

\* head_end + body_len on usize: with overflow checks the addition panics,
\* without them it wraps
usize_add_overflows(a, b) == a + b > USIZE_MAX
usize_wrapping_add(a, b) == (a + b) % (USIZE_MAX + 1)

\* A body attached without extending the message span
body_spans_head_only(s, off, msg, range) ==
    IF range.end > Len(s) THEN Err("body range exceeds source")
    ELSE Ok([msg EXCEPT !.body = Some([span |-> new_span(s, range)])])

\* The end of both parsers (span.rs:78-97 and 166-185): a body of body_len
\* bytes after the head, and the message span extended over it
body_spans(s, off, msg, range) ==
    IF range.end > Len(s) THEN Err("body range exceeds source")
    ELSE IF new_bytes_panics(s, Range(off, range.end)) \/ new_bytes_panics(s, range)
    THEN Panic("range start must not be greater than end")
    ELSE Ok([msg EXCEPT !.span = new_span(s, Range(off, range.end)),
                        !.body = Some([span |-> new_span(s, range)])])

\* A body attached even when its length is 0
attach_body_always(s, off, head_end, msg, body_len, overflow_checks) ==
    body_spans(s, off, msg, Range(head_end, usize_wrapping_add(head_end, body_len)))

attach_body(s, off, head_end, msg, body_len, overflow_checks) ==
    IF body_len = 0 THEN Ok(msg)
    ELSE IF usize_add_overflows(head_end, body_len) /\ overflow_checks
    THEN Panic("attempt to add with overflow")
    ELSE body_spans(s, off, msg, Range(head_end, usize_wrapping_add(head_end, body_len)))

\* parse_request_from_bytes, in the order of the source: the tokenizer's
\* answer; the first CRLF after the offset as the end of the request line;
\* the headers; the method searched from the offset; the Request; the body
\* length; the body.
request_body(s, off, head_end, request, body_len, overflow_checks) ==
    IF body_len.tag # "Ok" THEN body_len
    ELSE attach_body(s, off, head_end, request, body_len.val, overflow_checks)

request_build(s, off, head_end, request, overflow_checks) ==
    request_body(s, off, head_end, request, request_body_len(request), overflow_checks)

request_spans(s, off, tk, request_line_end, hs, method, overflow_checks) ==
    IF request_line_end = -1 THEN Panic("request line is terminated with CRLF")
    ELSE IF \E i \in 1..Len(hs) : hs[i].tag = "Panic"
    THEN Panic("CRLF is present in a valid header")
    ELSE IF method = -1 THEN Panic("method is present")
    ELSE IF new_str_panics(s, Range(off, off + request_line_end + 2))
    THEN Panic("span is not a valid UTF-8 string")
    ELSE IF get_span_range_panics(tk.path) THEN Panic("span is not within source string")
    ELSE request_build(s, off, tk.head_end + off,
            [span |-> new_span(s, Range(off, tk.head_end + off)),
             request |-> [span |-> new_span(s, Range(off, off + request_line_end + 2)),
                          method |-> new_span(s, Range(off + method, off + method + Len(tk.method))),
                          target |-> new_span(s, get_span_range(off, tk.path))],
             headers |-> [i \in 1..Len(hs) |-> hs[i].val],
             body |-> None],
            overflow_checks)

request_head(s, off, b, tk, overflow_checks) ==
    IF tk.t = "Partial" THEN Err("incomplete request")
    ELSE IF tk.t = "Error" THEN Err(tk.e)
    ELSE request_spans(s, off, tk,
            WindowsPosition(b, 2, CRLF),
            [i \in 1..Len(tk.headers) |-> from_header(s, off, tk.headers[i])],
            WindowsPosition(b, Len(tk.method), tk.method),
            overflow_checks)

request_slice(s, off, b, overflow_checks) ==
    request_head(s, off, b, httparse_request(b), overflow_checks)

parse_request_from_bytes(s, off, overflow_checks) ==
    IF off > Len(s) THEN Panic("range start index out of range")
    ELSE request_slice(s, off, Slice(s, off, Len(s)), overflow_checks)

\* parse_response_from_bytes: as for a request, with the code searched from
\* the offset as a window of three bytes
response_body(s, off, head_end, response, body_len, overflow_checks) ==
    IF body_len.tag # "Ok" THEN body_len
    ELSE attach_body(s, off, head_end, response, body_len.val, overflow_checks)

response_build(s, off, head_end, response, overflow_checks) ==
    response_body(s, off, head_end, response, response_body_len(response), overflow_checks)

response_spans(s, off, tk, status_line_end, hs, code, overflow_checks) ==
    IF status_line_end = -1 THEN Panic("status line is terminated with CRLF")
    ELSE IF \E i \in 1..Len(hs) : hs[i].tag = "Panic"
    THEN Panic("CRLF is present in a valid header")
    ELSE IF code = -1 THEN Panic("code is present")
    ELSE IF new_str_panics(s, Range(off, off + status_line_end + 2))
    THEN Panic("span is not a valid UTF-8 string")
    ELSE IF get_span_range_panics(tk.reason) THEN Panic("span is not within source string")
    ELSE response_build(s, off, tk.head_end + off,
            [span |-> new_span(s, Range(off, tk.head_end + off)),
             status |-> [span |-> new_span(s, Range(off, off + status_line_end + 2)),
                         code |-> new_span(s, Range(off + code, off + code + 3)),
                         reason |-> new_span(s, get_span_range(off, tk.reason))],
             headers |-> [i \in 1..Len(hs) |-> hs[i].val],
             body |-> None],
            overflow_checks)

response_head(s, off, b, tk, overflow_checks) ==
    IF tk.t = "Partial" THEN Err("incomplete response")
    ELSE IF tk.t = "Error" THEN Err(tk.e)
    ELSE response_spans(s, off, tk,
            WindowsPosition(b, 2, CRLF),
            [i \in 1..Len(tk.headers) |-> from_header(s, off, tk.headers[i])],
            WindowsPosition(b, 3, to_string(tk.code)),
            overflow_checks)

response_slice(s, off, b, overflow_checks) ==
    response_head(s, off, b, httparse_response(b), overflow_checks)

parse_response_from_bytes(s, off, overflow_checks) ==
    IF off > Len(s) THEN Panic("range start index out of range")
    ELSE response_slice(s, off, Slice(s, off, Len(s)), overflow_checks)

\* parse_request / parse_response: the whole slice, copied, from offset 0
parse_request(s, overflow_checks) == parse_request_from_bytes(s, 0, overflow_checks)
parse_response(s, overflow_checks) == parse_response_from_bytes(s, 0, overflow_checks)

\* RangeSet::shift_right as Span::offset calls it: offset is added to both
\* bounds of every range, by a checked addition that panics on overflow in
\* every build ("Panics if the offset causes the indices to overflow").
shift_right_overflows(indices, d) ==
    \E k \in 1..Len(indices) : usize_add_overflows(indices[k].end, d)
shift_right(indices, d) ==
    [k \in 1..Len(indices) |-> Range(indices[k].start + d, indices[k].end + d)]

\* Span::offset: the indices move, the bytes stay
span_offset(sp, d) == [sp EXCEPT !.indices = shift_right(sp.indices, d)]

\* Header::offset, RequestLine::offset, Status::offset, Body::offset
header_offset(h, d) ==
    [span |-> span_offset(h.span, d), name |-> span_offset(h.name, d),
     value |-> span_offset(h.value, d)]
request_line_offset(l, d) ==
    [span |-> span_offset(l.span, d), method |-> span_offset(l.method, d),
     target |-> span_offset(l.target, d)]
status_offset(l, d) ==
    [span |-> span_offset(l.span, d), code |-> span_offset(l.code, d),
     reason |-> span_offset(l.reason, d)]
body_offset(b, d) ==
    IF b = None THEN None ELSE Some([span |-> span_offset(b[1].span, d)])
headers_offset(hs, d) == [i \in 1..Len(hs) |-> header_offset(hs[i], d)]

\* The spans of a message that offset() shifts
header_span_sets(hs) ==
    UNION {{hs[i].span.indices, hs[i].name.indices, hs[i].value.indices} : i \in 1..Len(hs)}
body_span_sets(b) == IF b = None THEN {} ELSE {b[1].span.indices}
request_span_sets(m) ==
    {m.span.indices, m.request.span.indices, m.request.method.indices,
     m.request.target.indices} \cup header_span_sets(m.headers) \cup body_span_sets(m.body)
response_span_sets(m) ==
    {m.span.indices, m.status.span.indices, m.status.code.indices,
     m.status.reason.indices} \cup header_span_sets(m.headers) \cup body_span_sets(m.body)

\* Request::offset / Response::offset
request_offset(m, d) ==
    IF \E x \in request_span_sets(m) : shift_right_overflows(x, d)
    THEN Panic("overflow")
    ELSE Ok([span |-> span_offset(m.span, d),
             request |-> request_line_offset(m.request, d),
             headers |-> headers_offset(m.headers, d),
             body |-> body_offset(m.body, d)])
response_offset(m, d) ==
    IF \E x \in response_span_sets(m) : shift_right_overflows(x, d)
    THEN Panic("overflow")
    ELSE Ok([span |-> span_offset(m.span, d),
             status |-> status_offset(m.status, d),
             headers |-> headers_offset(m.headers, d),
             body |-> body_offset(m.body, d)])

\* parse_request(&src[o..]) followed by offset(o) on the request, and the
\* same for a response
request_then_offset(parsed, d) ==
    IF parsed.tag # "Ok" THEN parsed ELSE request_offset(parsed.val, d)
response_then_offset(parsed, d) ==
    IF parsed.tag # "Ok" THEN parsed ELSE response_offset(parsed.val, d)

---------------------------------------------------------------------------
(* The inputs: buffers put together from the pieces of a message *)

MaxPrefix == 2      \* bytes before the message, skipped by the offset
MaxTrail == 2       \* bytes after the message

RECURSIVE Concat(_)
Concat(ss) == IF ss = <<>> THEN <<>> ELSE ss[1] \o Concat(Tail(ss))

PING == <<112, 105, 110, 103>>
HOST == <<72, 111, 115, 116>>
CHUNKED == <<99, 104, 117, 110, 107, 101, 100>>
REASON_OK == <<SP, 79, 75>>
HTTP11 == HTTP1_ \o <<49>>

\* n bytes of CR LF CR ..., which a parser that looked before the offset
\* would take for line ends
PrefixBytes(n) == [i \in 1..n |-> IF i % 2 = 1 THEN CR ELSE LF]
\* n bytes that follow a message
TrailBytes(n) == [i \in 1..n |-> IF i % 2 = 1 THEN 71 ELSE CR]

Hdr(name, value) == [name |-> name, value |-> value]

\* A header line: name, colon, a space, value, line end; or, where the
\* header says so itself, its own whitespace around the value and its own
\* line end
HeaderLine(h, eol) ==
    IF "eol" \in DOMAIN h
    THEN h.name \o <<COLON>> \o h.ws \o h.value \o h.trail \o h.eol
    ELSE h.name \o <<COLON, SP>> \o h.value \o eol

\* The first line of a message, without its line end
FirstLine(m) ==
    IF m.kind = "request" THEN m.method \o <<SP, 47, SP>> \o HTTP11
    ELSE HTTP11 \o <<SP>> \o m.code \o m.reason

\* The head: empty lines, first line, header lines, empty line
HeadBytes(m) ==
    m.lead \o FirstLine(m) \o m.eol1
    \o Concat([i \in 1..Len(m.hdrs) |-> HeaderLine(m.hdrs[i], m.eolh)]) \o m.eolh

\* The buffer: prefix, then the first cut bytes of head and rest
MessageBytes(m) == HeadBytes(m) \o m.rest
BufferOf(m) == m.prefix \o SubSeq(MessageBytes(m), 1, m.cut)

EOLS == {CRLF, <<LF>>}

\* Content-Length values: plain, signed, empty, not numeric, with an inner
\* space, not UTF-8, with leading zeros, usize::MAX and usize::MAX + 1
CLValues ==
    { <<48>>, <<52>>, <<PLUS, 52>>, <<MINUS, 52>>, <<>>, <<52, 120>>, <<52, SP, 52>>,
      <<NONUTF8>>, <<48, 48, 52>>, to_string(USIZE_MAX), to_string(USIZE_MAX + 1) }

TENames == {TRANSFER_ENCODING, LowerSeq(TRANSFER_ENCODING), UpperSeq(TRANSFER_ENCODING)}

\* Header lists: an optional Host, an optional Transfer-Encoding and an
\* optional Content-Length in either order
HeaderLists ==
    LET hosts == {<<>>, <<Hdr(HOST, <<97>>)>>}
        tes == {<<>>} \cup {<<Hdr(n, CHUNKED)>> : n \in TENames}
        cls == {<<>>} \cup {<<Hdr(CONTENT_LENGTH, v)>> : v \in CLValues}
    IN  {h \o a \o b : h \in hosts, a \in tes, b \in cls}
        \cup {h \o b \o a : h \in hosts, a \in tes, b \in cls}

FewHeaderLists ==
    { <<>>, <<Hdr(HOST, <<97>>)>>, <<Hdr(TRANSFER_ENCODING, CHUNKED)>>,
      <<Hdr(CONTENT_LENGTH, <<52>>)>>, <<Hdr(CONTENT_LENGTH, <<NONUTF8>>), Hdr(HOST, <<97>>)>> }

Codes == {<<50, 48, 48>>, <<50, 48, 52>>, <<51, 48, 52>>, <<49, 48, 48>>, <<49, 57, 57>>}
OddCodes == {<<50, 48, 48>>, <<50, 48, 52>>, <<48, 48, 55>>, <<48, 57, 57>>}
Reasons == {REASON_OK, <<SP>>, <<>>, <<SP, NONUTF8>>}

Rests == {<<>>, PING, PING \o TrailBytes(MaxTrail)}
Prefixes == {<<>>, PrefixBytes(MaxPrefix)}

Msg(kind, method, code, reason, lead, eol1, eolh, hdrs, rest, prefix) ==
    [kind |-> kind, method |-> method, code |-> code, reason |-> reason,
     lead |-> lead, eol1 |-> eol1, eolh |-> eolh, hdrs |-> hdrs, rest |-> rest,
     prefix |-> prefix, cut |-> 0]

Whole(m) == [m EXCEPT !.cut = Len(MessageBytes(m))]

\* Messages with CRLF line ends and every header list
HeaderFamily ==
    {Whole(Msg("request", me, <<>>, <<>>, <<>>, CRLF, CRLF, hs, r, p)) :
        me \in {GET, POST}, hs \in HeaderLists, r \in Rests, p \in Prefixes}
    \cup
    {Whole(Msg("response", <<>>, c, REASON_OK, <<>>, CRLF, CRLF, hs, r, p)) :
        c \in Codes, hs \in HeaderLists, r \in Rests, p \in Prefixes}

\* Messages with every framing the tokenizer accepts and a few header lists
FramingFamily ==
    {Whole(Msg("request", me, <<>>, <<>>, l, e1, eh, hs, r, p)) :
        me \in {GET, POST}, l \in {<<>>, CRLF, <<LF>>}, e1 \in EOLS, eh \in EOLS,
        hs \in FewHeaderLists, r \in {<<>>, PING}, p \in Prefixes}
    \cup
    {Whole(Msg("response", <<>>, c, re, l, e1, eh, hs, r, p)) :
        c \in OddCodes, re \in Reasons, l \in {<<>>, CRLF, <<LF>>}, e1 \in EOLS, eh \in EOLS,
        hs \in FewHeaderLists, r \in {<<>>, PING}, p \in Prefixes}

\* Every truncation of two complete messages
TruncatedFamily ==
    LET rq == Msg("request", POST, <<>>, <<>>, <<>>, CRLF, CRLF,
                  <<Hdr(CONTENT_LENGTH, <<52>>)>>, PING, <<>>)
        rs == Msg("response", <<>>, <<50, 48, 48>>, REASON_OK, <<>>, CRLF, CRLF,
                  <<Hdr(CONTENT_LENGTH, <<52>>)>>, PING, <<>>)
    IN  {[m EXCEPT !.cut = n] : m \in {rq, rs}, n \in 0..(Len(MessageBytes(rq)) - 1)}

Inputs == HeaderFamily \cup FramingFamily \cup TruncatedFamily

---------------------------------------------------------------------------
(* One parse call on one buffer *)

\* No accessor has been called
NoCall == [f |-> "none"]

Init ==
    /\ input \in Inputs
    /\ src = BufferOf(input)
    /\ offset = Len(input.prefix)
    /\ res = [tag |-> "None"]
    /\ pos = 0
    /\ items = <<>>
    /\ op = "new"
    /\ call = NoCall
    /\ out = NoCall

\* parse_request(src): the public entry point, from offset 0
ParseRequest ==
    /\ op = "new"
    /\ offset = 0
    /\ \E overflow_checks \in BOOLEAN : res' = parse_request(src, overflow_checks)
    /\ op' = "parse_request"
    /\ UNCHANGED <<src, input, offset, pos, items, call, out>>

\* parse_request_from_bytes(src, offset)
ParseRequestFromBytes ==
    /\ op = "new"
    /\ offset > 0
    /\ \E overflow_checks \in BOOLEAN :
           res' = parse_request_from_bytes(src, offset, overflow_checks)
    /\ op' = "parse_request"
    /\ UNCHANGED <<src, input, offset, pos, items, call, out>>

\* parse_response(src)
ParseResponse ==
    /\ op = "new"
    /\ offset = 0
    /\ \E overflow_checks \in BOOLEAN : res' = parse_response(src, overflow_checks)
    /\ op' = "parse_response"
    /\ UNCHANGED <<src, input, offset, pos, items, call, out>>

\* parse_response_from_bytes(src, offset)
ParseResponseFromBytes ==
    /\ op = "new"
    /\ offset > 0
    /\ \E overflow_checks \in BOOLEAN :
           res' = parse_response_from_bytes(src, offset, overflow_checks)
    /\ op' = "parse_response"
    /\ UNCHANGED <<src, input, offset, pos, items, call, out>>

Next ==
    \/ ParseRequest
    \/ ParseRequestFromBytes
    \/ ParseResponse
    \/ ParseResponseFromBytes

Spec == Init /\ [][Next]_vars

---------------------------------------------------------------------------
(* What the buffer was built from, read off the input record and never
   off the parser's answer *)

\* A parse call has returned or panicked
Parsed == op \in {"parse_request", "parse_response"}

\* The buffer holds a message of the kind the call parses
OwnKind ==
    \/ op = "parse_request" /\ input.kind = "request"
    \/ op = "parse_response" /\ input.kind = "response"

\* The whole head is in the buffer
HeadComplete(m) == m.cut >= Len(HeadBytes(m))

\* The whole message is in the buffer
MessageComplete(m) == m.cut = Len(MessageBytes(m))

\* The status code as a number
CodeOf(m) == (m.code[1] - 48) * 100 + (m.code[2] - 48) * 10 + (m.code[3] - 48)

\* A response with status 1xx, 204 or 304
Bodyless(m) ==
    m.kind = "response" /\ (CodeOf(m) \in 100..199 \/ CodeOf(m) = 204 \/ CodeOf(m) = 304)

\* CRLF line ends and, in a response, a status of at least 100 followed by
\* a space and a reason phrase of ASCII bytes
WellFramed(m) ==
    /\ m.eol1 = CRLF
    /\ m.eolh = CRLF
    /\ m.kind = "response" =>
          /\ CodeOf(m) >= 100
          /\ m.reason # <<>>
          /\ m.reason[1] = SP
          /\ \A i \in 1..Len(m.reason) : m.reason[i] < 128

\* The headers of the input whose name is the given lower-case name in any
\* letter case
Named(m, lower) == {i \in 1..Len(m.hdrs) : LowerSeq(m.hdrs[i].name) = lower}
HasTE(m) == Named(m, LowerSeq(TRANSFER_ENCODING)) # {}
HasCL(m) == Named(m, LowerSeq(CONTENT_LENGTH)) # {}

\* The value of the first Content-Length header
CLValue(m) ==
    m.hdrs[CHOOSE i \in Named(m, LowerSeq(CONTENT_LENGTH)) :
               \A j \in Named(m, LowerSeq(CONTENT_LENGTH)) : i <= j].value

\* A non-empty string of ASCII decimal digits, and its value
AllDigits(v) == v # <<>> /\ \A i \in 1..Len(v) : v[i] \in 48..57
RECURSIVE Decimal(_)
Decimal(v) ==
    IF v = <<>> THEN 0 ELSE Decimal(SubSeq(v, 1, Len(v) - 1)) * 10 + (v[Len(v)] - 48)

\* The end of the head in the buffer
HeadEnd == offset + Len(HeadBytes(input))

\* The answer is a message without a body whose span is the head
OkHeadOnly ==
    /\ res.tag = "Ok"
    /\ res.val.body = None
    /\ res.val.span.indices = <<[start |-> offset, end |-> HeadEnd]>>
    /\ res.val.span.data = SubSeq(src, offset + 1, HeadEnd)

\* The answer is a message with a body of n > 0 bytes after the head, and a
\* span over head and body
OkWithBody(n) ==
    /\ res.tag = "Ok"
    /\ res.val.body # None
    /\ res.val.body[1].span.indices = <<[start |-> HeadEnd, end |-> HeadEnd + n]>>
    /\ res.val.body[1].span.data = SubSeq(src, HeadEnd + 1, HeadEnd + n)
    /\ res.val.span.indices = <<[start |-> offset, end |-> HeadEnd + n]>>
    /\ res.val.span.data = SubSeq(src, offset + 1, HeadEnd + n)

TEError == [tag |-> "Err", err |-> "Transfer-Encoding not supported yet"]

---------------------------------------------------------------------------
(* Claims about one parse call *)

BodyLen(msg) == IF msg.body = None THEN 0 ELSE span_len(msg.body[1].span)

\* C3: whenever a parse from offset o succeeds, the index set of the
\* message span is the single range [o, head_end + body_len) and its bytes
\* are the buffer sliced at those indices; bytes after the message are not
\* part of the span and cause no error: a well-framed message that declares
\* a body of four bytes and is followed by more bytes parses.
C3_SpanIsConsumedPrefix ==
    /\ (Parsed /\ res.tag = "Ok") =>
          /\ OwnKind
          /\ res.val.span.indices =
                <<[start |-> offset, end |-> HeadEnd + BodyLen(res.val)]>>
          /\ res.val.span.data = SubSeq(src, offset + 1, HeadEnd + BodyLen(res.val))
          /\ HeadEnd + BodyLen(res.val) <= Len(src)
          /\ res.val.body # None =>
                res.val.body[1].span.indices =
                    <<[start |-> HeadEnd, end |-> HeadEnd + BodyLen(res.val)]>>
    /\ ( /\ Parsed /\ OwnKind /\ WellFramed(input) /\ MessageComplete(input)
         /\ ~HasTE(input) /\ HasCL(input) /\ CLValue(input) = <<52>>
         /\ Len(input.rest) > 4 )
       => res.tag = "Ok"

\* C3 witness: a request parsed from an offset inside the buffer, with a
\* body, and with bytes after the body that are not part of the span
C3_Witness ==
    /\ op = "parse_request"
    /\ offset > 0
    /\ res.tag = "Ok"
    /\ res.val.body # None
    /\ res.val.span.indices = <<[start |-> offset, end |-> HeadEnd + 4]>>
    /\ HeadEnd + 4 < Len(src)

\* C4 as stated: with no Transfer-Encoding and a Content-Length of decimal
\* value L, a successfully parsed message has a body exactly when L > 0.
\* A 204 response with Content-Length: 4 refutes it.
C4_AsStated ==
    ( /\ Parsed /\ res.tag = "Ok" /\ ~HasTE(input) /\ HasCL(input)
      /\ AllDigits(CLValue(input)) )
    => (res.val.body # None <=> Decimal(CLValue(input)) > 0)

\* C4 amended: with no Transfer-Encoding and a Content-Length of decimal
\* value L, a successfully parsed request, or response whose status is not
\* 1xx, 204 or 304, has body = Some exactly when L > 0; the body's indices
\* are then [head_end, head_end + L) and the message span ends at
\* head_end + L; when L = 0 the body is None and the span ends at head_end.
\* A successfully parsed response with status 1xx, 204 or 304 has no body
\* and a span that ends at head_end, whatever L is.
C4_ContentLengthBody ==
    ( /\ Parsed /\ res.tag = "Ok" /\ ~HasTE(input) /\ HasCL(input)
      /\ AllDigits(CLValue(input)) )
    => /\ (~Bodyless(input) /\ Decimal(CLValue(input)) > 0) =>
              OkWithBody(Decimal(CLValue(input)))
       /\ (~Bodyless(input) /\ Decimal(CLValue(input)) = 0) => OkHeadOnly
       /\ Bodyless(input) => OkHeadOnly

\* C4 witness: a 200 response with Content-Length: 004 was parsed with a
\* body of four bytes
C4_Witness ==
    /\ op = "parse_response"
    /\ input.kind = "response"
    /\ CodeOf(input) = 200
    /\ ~HasTE(input)
    /\ HasCL(input)
    /\ CLValue(input) = <<48, 48, 52>>
    /\ OkWithBody(4)

\* C5 as stated: for every Content-Length value L that parses as a usize,
\* if head_end + L is greater than the buffer length the parse returns an
\* error; the sum never wraps around and never aborts.  L = usize::MAX
\* refutes it: the sum overflows, which panics in a build with overflow
\* checks and wraps in a build without, where the slice of the body then
\* panics.
C5_AsStated ==
    ( /\ Parsed /\ OwnKind /\ WellFramed(input) /\ MessageComplete(input)
      /\ ~HasTE(input) /\ HasCL(input) /\ ~Bodyless(input)
      /\ AllDigits(CLValue(input))
      /\ Decimal(CLValue(input)) <= USIZE_MAX
      /\ HeadEnd + Decimal(CLValue(input)) > Len(src) )
    => res.tag = "Err"

\* C6 as stated: a Content-Length whose value is not a non-empty string of
\* ASCII decimal digits makes the parse fail; such a value is never taken
\* as a body length.  Stated in its weakest reading, "is not parsed
\* successfully"; the value "+4" refutes it.
C6_AsStated ==
    ( /\ Parsed /\ OwnKind /\ ~HasTE(input) /\ HasCL(input) /\ ~Bodyless(input)
      /\ ~AllDigits(CLValue(input)) )
    => res.tag # "Ok"

C8_AsStated == Parsed => res.tag # "Panic"
---------------------------------------------------------------------------
(* The Requests / Responses iterators (src/src/http/mod.rs) *)

MaxMsgs == 3        \* complete messages in the iterated buffer
MaxCalls == 5       \* calls of next() on one iterator

\* A next() that moves on to the end index of the span, not by its length
requests_next_to_end(s, p, overflow_checks) ==
    IF p >= Len(s) THEN [item |-> [tag |-> "None"], pos |-> p]
    ELSE LET r == parse_request_from_bytes(s, p, overflow_checks)
         IN  IF r.tag = "Panic" THEN [item |-> r, pos |-> p]
             ELSE IF r.tag = "Ok"
             THEN [item |-> [tag |-> "Some", val |-> r],
                   pos |-> p + r.val.span.indices[1].end]
             ELSE [item |-> [tag |-> "Some", val |-> r], pos |-> p]

\* Requests::next: None at or after the end of the buffer; otherwise the
\* parse at pos, and on Ok pos moves on by the length of the message span.
\* A panic of the parser is a panic of next().
requests_next(s, p, overflow_checks) ==
    IF p >= Len(s) THEN [item |-> [tag |-> "None"], pos |-> p]
    ELSE LET r == parse_request_from_bytes(s, p, overflow_checks)
         IN  IF r.tag = "Panic" THEN [item |-> r, pos |-> p]
             ELSE IF r.tag = "Ok"
             THEN [item |-> [tag |-> "Some", val |-> r], pos |-> p + span_len(r.val.span)]
             ELSE [item |-> [tag |-> "Some", val |-> r], pos |-> p]

\* A next() that ends the iteration on a parse error
responses_next_ok_only(s, p, overflow_checks) ==
    IF p >= Len(s) THEN [item |-> [tag |-> "None"], pos |-> p]
    ELSE LET r == parse_response_from_bytes(s, p, overflow_checks)
         IN  IF r.tag = "Panic" THEN [item |-> r, pos |-> p]
             ELSE IF r.tag = "Ok"
             THEN [item |-> [tag |-> "Some", val |-> r], pos |-> p + span_len(r.val.span)]
             ELSE [item |-> [tag |-> "None"], pos |-> p]

\* Responses::next
responses_next(s, p, overflow_checks) ==
    IF p >= Len(s) THEN [item |-> [tag |-> "None"], pos |-> p]
    ELSE LET r == parse_response_from_bytes(s, p, overflow_checks)
         IN  IF r.tag = "Panic" THEN [item |-> r, pos |-> p]
             ELSE IF r.tag = "Ok"
             THEN [item |-> [tag |-> "Some", val |-> r], pos |-> p + span_len(r.val.span)]
             ELSE [item |-> [tag |-> "Some", val |-> r], pos |-> p]

\* Complete messages with CRLF line ends and a body of the declared length
Valid(kind, method, code, hdrs, body) ==
    Whole(Msg(kind, method, code, IF kind = "request" THEN <<>> ELSE REASON_OK,
              <<>>, CRLF, CRLF, hdrs, body, <<>>))

ValidRequests ==
    { Valid("request", GET, <<>>, <<>>, <<>>),
      Valid("request", POST, <<>>, <<Hdr(CONTENT_LENGTH, <<52>>)>>, PING),
      Valid("request", GET, <<>>, <<Hdr(HOST, <<97>>), Hdr(CONTENT_LENGTH, <<48>>)>>, <<>>) }

ValidResponses ==
    { Valid("response", <<>>, <<50, 48, 48>>, <<Hdr(CONTENT_LENGTH, <<48>>)>>, <<>>),
      Valid("response", <<>>, <<50, 48, 48>>, <<Hdr(CONTENT_LENGTH, <<52>>)>>, PING),
      Valid("response", <<>>, <<50, 48, 52>>, <<>>, <<>>),
      Valid("response", <<>>, <<51, 48, 52>>, <<Hdr(CONTENT_LENGTH, <<52>>)>>, <<>>) }

\* Sequences of at most n elements of S
RECURSIVE SeqsUpTo(_, _)
SeqsUpTo(S, n) ==
    IF n = 0 THEN {<<>>}
    ELSE LET R == SeqsUpTo(S, n - 1)
         IN  R \cup {Append(q, x) : q \in R, x \in S}

\* What follows the complete messages: nothing, a message cut in its body
\* or in its head, bytes that are no message, or a head with bare LF line
\* ends
Tails(kind) ==
    LET m == IF kind = "request"
             THEN Valid("request", POST, <<>>, <<Hdr(CONTENT_LENGTH, <<52>>)>>, PING)
             ELSE Valid("response", <<>>, <<50, 48, 48>>, <<Hdr(CONTENT_LENGTH, <<52>>)>>, PING)
        bare == [m EXCEPT !.eol1 = <<LF>>, !.eolh = <<LF>>]
    IN  { [what |-> "none", bytes |-> <<>>],
          [what |-> "truncated", bytes |-> SubSeq(MessageBytes(m), 1, Len(MessageBytes(m)) - 1)],
          [what |-> "truncated", bytes |-> SubSeq(MessageBytes(m), 1, 12)],
          [what |-> "trailing", bytes |-> TrailBytes(MaxTrail)],
          [what |-> "bare_lf", bytes |-> MessageBytes(bare)] }

IterInputs ==
    {[kind |-> "request", msgs |-> ms, tail |-> tl] :
        ms \in SeqsUpTo(ValidRequests, MaxMsgs), tl \in Tails("request")}
    \cup
    {[kind |-> "response", msgs |-> ms, tail |-> tl] :
        ms \in SeqsUpTo(ValidResponses, MaxMsgs), tl \in Tails("response")}

IterBuffer(i) == Concat([k \in 1..Len(i.msgs) |-> MessageBytes(i.msgs[k])]) \o i.tail.bytes

\* Requests::new / Responses::new
InitIter ==
    /\ input \in IterInputs
    /\ src = IterBuffer(input)
    /\ offset = 0
    /\ res = [tag |-> "None"]
    /\ pos = 0
    /\ items = <<>>
    /\ op = "new"
    /\ call = NoCall
    /\ out = NoCall

Panicked == items # <<>> /\ items[Len(items)].tag = "Panic"

RequestsNext ==
    /\ input.kind = "request"
    /\ Len(items) < MaxCalls
    /\ ~Panicked
    /\ \E overflow_checks \in BOOLEAN :
          LET n == requests_next(src, pos, overflow_checks)
          IN  /\ items' = Append(items, n.item)
              /\ pos' = n.pos
    /\ op' = "next"
    /\ UNCHANGED <<src, input, offset, res, call, out>>

ResponsesNext ==
    /\ input.kind = "response"
    /\ Len(items) < MaxCalls
    /\ ~Panicked
    /\ \E overflow_checks \in BOOLEAN :
          LET n == responses_next(src, pos, overflow_checks)
          IN  /\ items' = Append(items, n.item)
              /\ pos' = n.pos
    /\ op' = "next"
    /\ UNCHANGED <<src, input, offset, res, call, out>>

NextIter == RequestsNext \/ ResponsesNext

SpecIter == InitIter /\ [][NextIter]_vars

---------------------------------------------------------------------------
(* Claims about the iterators *)

\* The number of complete valid messages at the start of the buffer, and
\* the position in the buffer at which message i starts (message k + 1 is
\* the tail)
Count == Len(input.msgs)
StartOf(i) == Len(Concat([k \in 1..(i - 1) |-> MessageBytes(input.msgs[k])]))

\* Item i is Some(Ok) of the message that starts at StartOf(i) and ends
\* where the next begins
YieldedOk(i) ==
    /\ items[i].tag = "Some"
    /\ items[i].val.tag = "Ok"
    /\ items[i].val.val.span.indices = <<[start |-> StartOf(i), end |-> StartOf(i + 1)]>>
    /\ items[i].val.val.span.data = SubSeq(src, StartOf(i) + 1, StartOf(i + 1))

\* C9: iterating over the concatenation of k valid messages yields exactly
\* k Ok items in buffer order: the first span starts at 0, each next span
\* starts where the one before ended, the last ends at the buffer length,
\* and every call after the k-th item returns None.
C9_IterationYieldsEachMessage ==
    input.tail.what = "none" =>
        /\ \A i \in 1..Len(items) : IF i <= Count THEN YieldedOk(i) ELSE items[i].tag = "None"
        /\ StartOf(1) = 0
        /\ StartOf(Count + 1) = Len(src)
        /\ pos = StartOf(IF Len(items) < Count THEN Len(items) + 1 ELSE Count + 1)

\* C9 witness: three valid messages, one of them with a body, were yielded
\* and the call after them returned None
C9_Witness ==
    /\ input.tail.what = "none"
    /\ Count = 3
    /\ Len(items) = 4
    /\ \E i \in 1..3 : items[i].tag = "Some" /\ items[i].val.tag = "Ok"
                       /\ items[i].val.val.body # None
    /\ items[3].val.val.span.indices[1].end = Len(src)
    /\ items[4].tag = "None"

\* C10: if the bytes at the iterator's position are a truncated message or
\* bytes that are no message, next() yields Some(Err) and never None, and
\* it does so only after every complete message before them has been
\* yielded as Ok, in order; the position stays at the bytes that failed.
C10_ErrorAfterCompleteMessages ==
    input.tail.what \in {"truncated", "trailing"} =>
        /\ \A i \in 1..Len(items) :
              IF i <= Count THEN YieldedOk(i)
              ELSE items[i].tag = "Some" /\ items[i].val.tag = "Err"
        /\ Len(items) > Count => (pos = StartOf(Count + 1) /\ pos < Len(src))

\* C10 witness: after two complete responses a truncated third one was
\* answered with Some(Err), twice
C10_Witness ==
    /\ input.kind = "response"
    /\ input.tail.what = "truncated"
    /\ Count = 2
    /\ Len(items) = 4
    /\ items[2].val.tag = "Ok"
    /\ items[3].tag = "Some"
    /\ items[3].val.tag = "Err"
    /\ items[4] = items[3]

\* the sum of the span lengths of the Ok items among the first i
RECURSIVE Advance(_)
Advance(i) ==
    IF i = 0 THEN 0
    ELSE Advance(i - 1)
         + (IF items[i].tag = "Some" /\ items[i].val.tag = "Ok" THEN span_len(items[i].val.val.span) ELSE 0)

IsErrItem(i) == items[i].tag = "Some" /\ items[i].val.tag = "Err"

\* C28: pos never passes the end of the buffer; every Ok item moved pos on
\* by the length of its span, which is at least 1; an Err leaves pos where
\* it was, so every later call returns the same Err and never None
C28_PositionAndStickyError ==
    /\ pos <= Len(src)
    /\ pos = Advance(Len(items))
    /\ \A i \in 1..Len(items) :
          (items[i].tag = "Some" /\ items[i].val.tag = "Ok") =>
              /\ span_len(items[i].val.val.span) >= 1
              /\ items[i].val.val.span.indices = <<Range(Advance(i - 1), Advance(i))>>
    /\ \A i \in 1..Len(items) : \A j \in 1..Len(items) :
          (IsErrItem(i) /\ i < j) => items[j] = items[i]
    /\ input.tail.what \in {"truncated", "trailing"} =>
          \A i \in 1..Len(items) : items[i].tag # "None"

\* two messages were yielded, then the same error twice
C28_Witness ==
    /\ Len(items) >= 4
    /\ ~IsErrItem(1) /\ ~IsErrItem(2)
    /\ IsErrItem(3) /\ IsErrItem(4)
    /\ pos = Advance(2)
    /\ pos > 0 /\ pos < Len(src)

---------------------------------------------------------------------------
(* Accessors of a parsed message: header lookup, header spans, offset *)

\* The most header lines of a message
MaxLines == 3

ACCEPT == <<65, 99, 99, 101, 112, 116>>
HOS == SubSeq(HOST, 1, 3)

\* A header line with its own whitespace around the value and its own
\* line end
Line(name, ws, value, trail, eol) ==
    [name |-> name, value |-> value, ws |-> ws, trail |-> trail, eol |-> eol]

\* Header lines: one name in three letter cases, a name that is a prefix of
\* it, another name, an empty value, whitespace after a value, a bare LF,
\* and a body length
LinePool ==
    { Line(HOST, <<SP>>, <<97>>, <<>>, CRLF),
      Line(LowerSeq(HOST), <<>>, <<98>>, <<SP, HT>>, CRLF),
      Line(UpperSeq(HOST), <<SP>>, <<99>>, <<>>, <<LF>>),
      Line(HOST, <<>>, <<>>, <<>>, CRLF),
      Line(HOS, <<SP>>, <<101>>, <<>>, CRLF),
      Line(ACCEPT, <<SP>>, <<100>>, <<>>, CRLF),
      Line(CONTENT_LENGTH, <<SP>>, <<52>>, <<>>, CRLF) }

\* Messages of up to MaxLines of these lines, followed by four bytes, alone
\* in the buffer or after a prefix
LineInputs ==
    { Whole(Msg(kind, GET, <<50, 48, 48>>, REASON_OK, <<>>, CRLF, CRLF, hdrs, PING, prefix)) :
        kind \in {"request", "response"},
        hdrs \in SeqsUpTo(LinePool, MaxLines),
        prefix \in Prefixes }

\* The names looked up
LookupNames == {HOST, UpperSeq(HOST), HOS, LowerSeq(ACCEPT), CONTENT_LENGTH}

InitMsg ==
    /\ input \in LineInputs \cup Inputs
    /\ src = BufferOf(input)
    /\ offset = Len(input.prefix)
    /\ res = [tag |-> "None"]
    /\ pos = 0
    /\ items = <<>>
    /\ op = "new"
    /\ call = NoCall
    /\ out = NoCall

\* Header::without_value, RequestLine::without_target
header_without_value(h) == difference(h.span.indices, h.value.indices)

without_target(l) == difference(l.span.indices, l.target.indices)

\* the loop of without_data over the headers
RECURSIVE without_headers(_, _)
without_headers(indices, headers) ==
    IF headers = <<>> THEN indices
    ELSE without_headers(difference(indices, headers[1].span.indices), Tail(headers))

without_body(indices, body) ==
    IF body = None THEN indices ELSE difference(indices, body[1].span.indices)

\* Request::without_data, Response::without_data
request_without_data(m) ==
    without_body(without_headers(difference(m.span.indices, m.request.target.indices), m.headers), m.body)

response_without_data(m) == without_body(without_headers(m.span.indices, m.headers), m.body)

\* message.without_data()
WithoutData ==
    /\ Parsed
    /\ res.tag = "Ok"
    /\ call' = [f |-> "without_data"]
    /\ out' = (IF "request" \in DOMAIN res.val THEN request_without_data(res.val)
               ELSE response_without_data(res.val))
    /\ op' = "without_data"
    /\ UNCHANGED <<src, input, offset, res, pos, items>>

\* request.request.without_target()
WithoutTarget ==
    /\ Parsed
    /\ res.tag = "Ok"
    /\ "request" \in DOMAIN res.val
    /\ call' = [f |-> "without_target"]
    /\ out' = without_target(res.val.request)
    /\ op' = "without_target"
    /\ UNCHANGED <<src, input, offset, res, pos, items>>

\* header.without_value() on a header of the message
HeaderWithoutValue ==
    /\ Parsed
    /\ res.tag = "Ok"
    /\ \E i \in 1..Len(res.val.headers) :
          /\ call' = [f |-> "without_value", i |-> i]
          /\ out' = header_without_value(res.val.headers[i])
    /\ op' = "header_without_value"
    /\ UNCHANGED <<src, input, offset, res, pos, items>>

\* message.headers_with_name(name), collected
HeadersWithName ==
    /\ Parsed
    /\ res.tag = "Ok"
    /\ \E name \in LookupNames :
          /\ call' = [f |-> "headers_with_name", name |-> name]
          /\ out' = headers_with_name(res.val.headers, name)
    /\ op' = "headers_with_name"
    /\ UNCHANGED <<src, input, offset, res, pos, items>>

\* The other way to the same request: parse_request on the bytes from the
\* offset alone, then offset(offset) on the result
ParseRequestThenOffset ==
    /\ op = "parse_request"
    /\ \E overflow_checks \in BOOLEAN :
          out' = request_then_offset(
                     parse_request(Slice(src, offset, Len(src)), overflow_checks),
                     offset)
    /\ call' = [f |-> "offset", offset |-> offset]
    /\ op' = "request_offset"
    /\ UNCHANGED <<src, input, offset, res, pos, items>>

ParseResponseThenOffset ==
    /\ op = "parse_response"
    /\ \E overflow_checks \in BOOLEAN :
          out' = response_then_offset(
                     parse_response(Slice(src, offset, Len(src)), overflow_checks),
                     offset)
    /\ call' = [f |-> "offset", offset |-> offset]
    /\ op' = "response_offset"
    /\ UNCHANGED <<src, input, offset, res, pos, items>>

NextMsg ==
    \/ ParseRequest
    \/ ParseRequestFromBytes
    \/ ParseResponse
    \/ ParseResponseFromBytes
    \/ HeadersWithName
    \/ ParseRequestThenOffset
    \/ ParseResponseThenOffset
    \/ WithoutData
    \/ WithoutTarget
    \/ HeaderWithoutValue

SpecMsg == InitMsg /\ [][NextMsg]_vars

\* The elements of a sequence at the given positions, in order
RECURSIVE Pick(_, _)
Pick(seq, I) ==
    IF I = {} THEN <<>>
    ELSE LET i == CHOOSE x \in I : \A y \in I : x <= y
         IN  <<seq[i]>> \o Pick(seq, I \ {i})

\* C11: headers_with_name(n) returns the headers of the message whose name
\* is n in any ASCII letter case, all of them, duplicates included, in the
\* order of the message; so lookups that differ in letter case only return
\* the same sequence.
C11_LookupIgnoresCase ==
    op = "headers_with_name" =>
        out = Pick(res.val.headers, Named(input, LowerSeq(call.name)))

\* A lookup in capitals returns three headers, none of them in capitals only
C11_Witness ==
    /\ op = "headers_with_name"
    /\ call.name = UpperSeq(HOST)
    /\ Len(out) = 3
    /\ out[1].name.data = LowerSeq(HOST)
    /\ out[2].name.data = HOST
    /\ out[3].name.data = HOST
    /\ Len(res.val.headers) = 3


\* Where header line i of the input starts and ends in the buffer
LineStart(i) ==
    offset + Len(input.lead \o FirstLine(input) \o input.eol1)
    + Len(Concat([j \in 1..(i - 1) |-> HeaderLine(input.hdrs[j], input.eolh)]))
LineEnd(i) == LineStart(i) + Len(HeaderLine(input.hdrs[i], input.eolh))

\* One range inside another
Within(inner, outer) ==
    \A k \in 1..Len(inner) :
        outer # <<>> /\ outer[1].start <= inner[k].start /\ inner[k].end <= outer[1].end

\* C12: the span of every header of a parsed message is the one range from
\* the first byte of its name through the line end of its own line; it
\* contains the name span and the value span and no byte of another line.
C12_AsStated ==
    (Parsed /\ res.tag = "Ok") =>
        \A i \in 1..Len(res.val.headers) :
            /\ res.val.headers[i].span.indices = <<Range(LineStart(i), LineEnd(i))>>
            /\ Within(res.val.headers[i].name.indices, res.val.headers[i].span.indices)
            /\ Within(res.val.headers[i].value.indices, res.val.headers[i].span.indices)


\* C13: parsing at offset o of a shared buffer gives the entity tree that
\* parsing the bytes from o alone and then offset(o) gives: the same bytes
\* in every span, every index o higher, whatever the bytes before o are;
\* and one way yields a tree exactly when the other does.
C13_OffsetEquivalence ==
    op \in {"request_offset", "response_offset"} =>
        ((res.tag = "Ok" \/ out.tag = "Ok") => out = res)

\* A request with two headers and a body, parsed behind a prefix of line
\* ends
C13_Witness ==
    /\ op = "request_offset"
    /\ offset = MaxPrefix
    /\ res.tag = "Ok"
    /\ out = res
    /\ Len(res.val.headers) >= 2
    /\ res.val.body # None
    /\ res.val.span.indices = <<Range(offset, Len(src))>>


---------------------------------------------------------------------------
(* Spans and source ranges: equality, comparison with a Range, offset *)

\* the index sets without_data takes away: the target of a request, the
\* span of every header, the span of the body
RemovedData(m) ==
    (IF "request" \in DOMAIN m THEN <<IndicesOf(m.request.target.indices)>> ELSE <<>>)
        \o [i \in 1..Len(m.headers) |-> IndicesOf(m.headers[i].span.indices)]
        \o (IF m.body = None THEN <<>> ELSE <<IndicesOf(m.body[1].span.indices)>>)

\* the result is the parent less the removed sets, which lie inside the
\* parent, apart from each other, and make up the parent with the result
Partition(result, parent, removed) ==
    /\ IndicesOf(result) = parent \ UNION {removed[k] : k \in DOMAIN removed}
    /\ \A k \in DOMAIN removed : removed[k] \subseteq parent
    /\ \A k \in DOMAIN removed : \A j \in DOMAIN removed : k # j => removed[k] \cap removed[j] = {}
    /\ IndicesOf(result) \cup UNION {removed[k] : k \in DOMAIN removed} = parent

\* C27 as stated: without_data, without_target and without_value are the
\* parent's span less the removed spans, and the removed spans lie inside
\* the parent, are pairwise disjoint and with the result make up the parent
C27_AsStated ==
    /\ op = "without_data" =>
          Partition(out, IndicesOf(res.val.span.indices), RemovedData(res.val))
    /\ op = "without_target" =>
          Partition(out, IndicesOf(res.val.request.span.indices),
                    <<IndicesOf(res.val.request.target.indices)>>)
    /\ op = "header_without_value" =>
          Partition(out, IndicesOf(res.val.headers[call.i].span.indices),
                    <<IndicesOf(res.val.headers[call.i].value.indices)>>)

C27_Difference ==
    /\ op = "without_data" =>
          IndicesOf(out) = IndicesOf(res.val.span.indices)
                               \ UNION {RemovedData(res.val)[k] : k \in DOMAIN RemovedData(res.val)}
    /\ op = "without_target" =>
          IndicesOf(out) = IndicesOf(res.val.request.span.indices) \ IndicesOf(res.val.request.target.indices)
    /\ op = "header_without_value" =>
          IndicesOf(out) = IndicesOf(res.val.headers[call.i].span.indices)
                               \ IndicesOf(res.val.headers[call.i].value.indices)

\* The length of the sources that spans are cut from
MaxSpan == 4

\* Two sources: abab... and abcb..., so that equal bytes lie at different
\* indices and different bytes at equal indices
SourceA(n) == [i \in 1..n |-> IF i % 2 = 1 THEN 97 ELSE 98]
SourceB(n) == [i \in 1..n |-> IF i % 4 = 3 THEN 99 ELSE IF i % 2 = 1 THEN 97 ELSE 98]
SpanSources == {SourceA(MaxSpan), SourceB(MaxSpan)}

\* Every Range<usize> within 0..n
RangesIn(n) == {Range(a, b) : a \in 0..n, b \in 0..n}
Ranges == {r \in RangesIn(MaxSpan) : r.start <= r.end}

\* Spans as Span::new_bytes makes them, and source ranges of both variants
Spans == {new_span(s, r) : s \in SpanSources, r \in Ranges}
SourceRanges ==
    {[kind |-> "Range", range |-> r] : r \in Ranges}
    \cup {[kind |-> "RangeSet", set |-> RangeSetOf(I)] : I \in SUBSET (0..(MaxSpan - 1))}

\* The amounts to shift by: none, one, the largest that fits the longest
\* range but one, and the largest of all
Offsets == {0, 1, USIZE_MAX - MaxSpan + 1, USIZE_MAX}

\* Equality of spans by their bytes alone
span_eq_content(a, b) == a.data = b.data

\* Span == Span, derived over the fields data and indices
span_eq(a, b) == a.data = b.data /\ a.indices = b.indices

\* RangeSet == Range: the set is that one range
range_set_eq_range(indices, r) == Len(indices) = 1 /\ indices[1] = r

\* Span == Range and Range == Span
span_eq_range(sp, r) == range_set_eq_range(sp.indices, r)
range_eq_span(r, sp) == span_eq_range(sp, r)

\* A comparison that looks into a set of ranges
source_range_eq_range_by_indices(sr, r) ==
    IF sr.kind = "Range" THEN sr.range = r ELSE range_set_eq_range(sr.set, r)

\* SourceRange == Range and Range == SourceRange
source_range_eq_range(sr, r) == IF sr.kind = "Range" THEN sr.range = r ELSE FALSE
range_eq_source_range(r, sr) == source_range_eq_range(sr, r)

\* Span::offset with its outcome
span_offset_call(sp, d) ==
    IF shift_right_overflows(sp.indices, d)
    THEN Panic("overflow")
    ELSE Ok(span_offset(sp, d))

\* SourceRange::offset: += on both bounds of a Range, which panics on
\* overflow in a build with overflow checks and wraps in one without;
\* shift_right on a set
source_range_offset(sr, d, overflow_checks) ==
    IF sr.kind = "Range"
    THEN IF overflow_checks
            /\ (usize_add_overflows(sr.range.start, d) \/ usize_add_overflows(sr.range.end, d))
         THEN Panic("attempt to add with overflow")
         ELSE Ok([kind |-> "Range",
                  range |-> Range(usize_wrapping_add(sr.range.start, d),
                                  usize_wrapping_add(sr.range.end, d))])
    ELSE IF shift_right_overflows(sr.set, d)
         THEN Panic("overflow")
         ELSE Ok([kind |-> "RangeSet", set |-> shift_right(sr.set, d)])

\* Range::len and SourceRange::len
range_len(r) == IF r.start < r.end THEN r.end - r.start ELSE 0
source_range_len(sr) == IF sr.kind = "Range" THEN range_len(sr.range) ELSE RangeSetLen(sr.set)

InitSpan ==
    /\ input \in {[what |-> "span", v |-> sp] : sp \in Spans}
                 \cup {[what |-> "source_range", v |-> sr] : sr \in SourceRanges}
    /\ src = <<>>
    /\ offset = 0
    /\ res = [tag |-> "None"]
    /\ pos = 0
    /\ items = <<>>
    /\ op = "new"
    /\ call = NoCall
    /\ out = NoCall

\* span == other
SpanEq ==
    /\ op = "new" /\ input.what = "span"
    /\ \E other \in Spans :
          /\ call' = [f |-> "eq", other |-> other]
          /\ out' = Ok(span_eq(input.v, other))
    /\ op' = "span_eq"
    /\ UNCHANGED <<src, input, offset, res, pos, items>>

\* span == range
SpanEqRange ==
    /\ op = "new" /\ input.what = "span"
    /\ \E r \in Ranges :
          /\ call' = [f |-> "eq", other |-> r]
          /\ out' = Ok(span_eq_range(input.v, r))
    /\ op' = "span_eq_range"
    /\ UNCHANGED <<src, input, offset, res, pos, items>>

\* range == span
RangeEqSpan ==
    /\ op = "new" /\ input.what = "span"
    /\ \E r \in Ranges :
          /\ call' = [f |-> "eq", other |-> r]
          /\ out' = Ok(range_eq_span(r, input.v))
    /\ op' = "range_eq_span"
    /\ UNCHANGED <<src, input, offset, res, pos, items>>

\* source_range == range
SourceRangeEqRange ==
    /\ op = "new" /\ input.what = "source_range"
    /\ \E r \in Ranges :
          /\ call' = [f |-> "eq", other |-> r]
          /\ out' = Ok(source_range_eq_range(input.v, r))
    /\ op' = "source_range_eq_range"
    /\ UNCHANGED <<src, input, offset, res, pos, items>>

\* range == source_range
RangeEqSourceRange ==
    /\ op = "new" /\ input.what = "source_range"
    /\ \E r \in Ranges :
          /\ call' = [f |-> "eq", other |-> r]
          /\ out' = Ok(range_eq_source_range(r, input.v))
    /\ op' = "range_eq_source_range"
    /\ UNCHANGED <<src, input, offset, res, pos, items>>

\* span.offset(d)
SpanOffset ==
    /\ op = "new" /\ input.what = "span"
    /\ \E d \in Offsets :
          /\ call' = [f |-> "offset", offset |-> d]
          /\ out' = span_offset_call(input.v, d)
    /\ op' = "span_offset"
    /\ UNCHANGED <<src, input, offset, res, pos, items>>

\* source_range.offset(d)
SourceRangeOffset ==
    /\ op = "new" /\ input.what = "source_range"
    /\ \E d \in Offsets, overflow_checks \in BOOLEAN :
          /\ call' = [f |-> "offset", offset |-> d]
          /\ out' = source_range_offset(input.v, d, overflow_checks)
    /\ op' = "source_range_offset"
    /\ UNCHANGED <<src, input, offset, res, pos, items>>

NextSpan ==
    \/ SpanEq
    \/ SpanEqRange
    \/ RangeEqSpan
    \/ SourceRangeEqRange
    \/ RangeEqSourceRange
    \/ SpanOffset
    \/ SourceRangeOffset

SpecSpan == InitSpan /\ [][NextSpan]_vars

C15_RangeComparison ==
    /\ op \in {"span_eq_range", "range_eq_span"} =>
          out.val = (/\ call.other.start < call.other.end
                     /\ IndicesOf(input.v.indices) = call.other.start..(call.other.end - 1))
    /\ op \in {"source_range_eq_range", "range_eq_source_range"} =>
          out.val = (input.v.kind = "Range" /\ input.v.range = call.other)

\* A range on the left and on the right a source range that holds the set
\* of that one range: unequal
C15_Witness ==
    /\ op = "range_eq_source_range"
    /\ input.v.kind = "RangeSet"
    /\ input.v.set = <<call.other>>
    /\ out.val = FALSE

\* The bounds of the ranges of a span or a source range
BoundsOf(v) ==
    IF v.what = "span"
    THEN UNION {{v.v.indices[k].start, v.v.indices[k].end} : k \in 1..Len(v.v.indices)}
    ELSE IF v.v.kind = "Range" THEN {v.v.range.start, v.v.range.end}
    ELSE UNION {{v.v.set[k].start, v.v.set[k].end} : k \in 1..Len(v.v.set)}

\* The number of indices of a span or a source range
LenOf(what, v) == IF what = "span" THEN span_len(v) ELSE source_range_len(v)

\* C16 as stated: offset(d) panics whenever a bound plus d exceeds the
\* largest index, never wraps, and otherwise leaves the length as it was.
C16_AsStated ==
    op \in {"span_offset", "source_range_offset"} =>
        IF \E b \in BoundsOf(input) : b + call.offset > USIZE_MAX
        THEN out.tag = "Panic"
        ELSE out.tag = "Ok" /\ LenOf(input.what, out.val) = LenOf(input.what, input.v)


---------------------------------------------------------------------------
(* JSON values: get, indexing, and the indices left without the children *)

DOT == 46
QUOTE == 34
COMMA == 44
LBRACKET == 91
RBRACKET == 93
LBRACE == 123
RBRACE == 125

\* path.split('.').next(): the bytes before the first '.', or all of them
RECURSIVE first_segment(_)
first_segment(path) ==
    IF path = <<>> \/ path[1] = DOT THEN <<>>
    ELSE <<path[1]>> \o first_segment(Tail(path))

\* path_iter.next().is_some(): a '.' follows the first segment
has_more(path, key) == Len(key) < Len(path)

\* &path[key.len() + 1..]
rest_of(path, key) == SubSeq(path, Len(key) + 2, Len(path))

\* The position of the last pair with the key
find_key_last(elems, key) ==
    IF \E i \in 1..Len(elems) : elems[i].key.data = key
    THEN CHOOSE i \in 1..Len(elems) :
            /\ elems[i].key.data = key
            /\ \A j \in (i + 1)..Len(elems) : elems[j].key.data # key
    ELSE 0

\* elems.iter().find(|kv| kv.key == key): the position of the first pair
\* whose key has these bytes, 0 if there is none
find_key(elems, key) ==
    IF \E i \in 1..Len(elems) : elems[i].key.data = key
    THEN CHOOSE i \in 1..Len(elems) :
            /\ elems[i].key.data = key
            /\ \A j \in 1..(i - 1) : elems[j].key.data # key
    ELSE 0

\* JsonValue::get, Array::get and Object::get: a leaf has nothing below it;
\* an array parses the first segment as usize and an object looks it up
\* as a key; with more path left the search goes on in the value found.
RECURSIVE value_get(_, _)
array_get_at(elems, path, key, idx) ==
    IF idx = -1 \/ idx >= Len(elems) THEN None
    ELSE IF has_more(path, key) THEN value_get(elems[idx + 1], rest_of(path, key))
    ELSE Some(elems[idx + 1])
array_get(array, path) ==
    array_get_at(array.elems, path, first_segment(path), parse_usize(first_segment(path)))
object_get_at(elems, path, key, i) ==
    IF i = 0 THEN None
    ELSE IF has_more(path, key) THEN value_get(elems[i].value, rest_of(path, key))
    ELSE Some(elems[i].value)
object_get(object, path) ==
    object_get_at(object.elems, path, first_segment(path),
                  find_key(object.elems, first_segment(path)))
value_get(value, path) ==
    IF value.kind = "Array" THEN array_get(value, path)
    ELSE IF value.kind = "Object" THEN object_get(value, path)
    ELSE None

\* Index<usize> for Array: elems.get(index).expect(..)
array_index(array, index) ==
    IF index < Len(array.elems) THEN Ok(array.elems[index + 1])
    ELSE Panic("index is in bounds")

\* Indexing that looks the key up among the pairs, whatever bytes it has
object_index_by_key(object, key) ==
    IF find_key(object.elems, key) = 0 THEN Panic("key is present")
    ELSE Ok(object.elems[find_key(object.elems, key)].value)

\* Index<&str> for Object: self.get(key).expect(..)
object_index(object, key) ==
    IF object_get(object, key) = None THEN Panic("key is present")
    ELSE Ok(object_get(object, key)[1])

\* KeyValue::without_value
without_value(kv) == difference(kv.span.indices, kv.value.span.indices)

\* The indices of an object without the values of its pairs only
without_pairs_values_only(object) ==
    RangeSetOf(IndicesOf(object.span.indices)
               \ UNION {IndicesOf(object.elems[i].value.span.indices) : i \in 1..Len(object.elems)})

\* Object::without_pairs: the span less the span of every pair
without_pairs(object) ==
    RangeSetOf(IndicesOf(object.span.indices)
               \ UNION {IndicesOf(object.elems[i].span.indices) : i \in 1..Len(object.elems)})

\* The indices of an array less the spans of its elements
without_values_difference(array) ==
    Ok(RangeSetOf(IndicesOf(array.span.indices)
                  \ UNION {IndicesOf(array.elems[i].span.indices) : i \in 1..Len(array.elems)}))

\* Array::without_values: the first and the last index of the span
without_values(array) ==
    IF array.span.indices = <<>> THEN Panic("array has at least brackets")
    ELSE Ok(RangeSetOf({array.span.indices[1].start,
                        array.span.indices[Len(array.span.indices)].end - 1}))


\* The most elements of the outer array or pairs of the outer object
MaxElems == 2

\* Documents: a number, a string, an array of documents, an object of
\* pairs; ws is the whitespace written after every ',' and ':', and a
\* container written with whitespace has a line feed before it closes
Num(text) == [k |-> "num", text |-> text]
Str(text) == [k |-> "str", text |-> text]
Arr(elems, ws) == [k |-> "arr", elems |-> elems, ws |-> ws]
Obj(pairs, ws) == [k |-> "obj", pairs |-> pairs, ws |-> ws]
Pair(key, value) == [key |-> key, value |-> value]

RECURSIVE Joined(_, _)
Joined(texts, sep) ==
    IF texts = <<>> THEN <<>>
    ELSE IF Len(texts) = 1 THEN texts[1]
    ELSE texts[1] \o sep \o Joined(Tail(texts), sep)

\* The text of a document
RECURSIVE Text(_)
ClosingWs(ws) == IF ws = <<>> THEN <<>> ELSE <<LF>>
PairText(p, ws) == <<QUOTE>> \o p.key \o <<QUOTE, COLON>> \o ws \o Text(p.value)
Text(d) ==
    IF d.k = "num" THEN d.text
    ELSE IF d.k = "str" THEN <<QUOTE>> \o d.text \o <<QUOTE>>
    ELSE IF d.k = "arr"
    THEN <<LBRACKET>>
         \o Joined([i \in 1..Len(d.elems) |-> Text(d.elems[i])], <<COMMA>> \o d.ws)
         \o ClosingWs(d.ws) \o <<RBRACKET>>
    ELSE <<LBRACE>>
         \o Joined([i \in 1..Len(d.pairs) |-> PairText(d.pairs[i], d.ws)], <<COMMA>> \o d.ws)
         \o ClosingWs(d.ws) \o <<RBRACE>>

\* Where element i of an array and pair i of an object start, the
\* container starting at index at
ElemAt(d, at, i) ==
    at + 1 + Len(Joined([j \in 1..i |-> Text(d.elems[j])], <<COMMA>> \o d.ws))
    - Len(Text(d.elems[i]))
PairAt(d, at, i) ==
    at + 1 + Len(Joined([j \in 1..i |-> PairText(d.pairs[j], d.ws)], <<COMMA>> \o d.ws))
    - Len(PairText(d.pairs[i], d.ws))

\* The value of a document whose text starts at index at of the source: a
\* number spans its text, a string and a key the bytes between the quotes,
\* a pair the bytes from the key's quote to the end of the value, a
\* container the bytes from the opening to the closing delimiter
RECURSIVE Node(_, _, _)
KeyValueNode(s, p, ws, at) ==
    [span |-> new_span(s, Range(at, at + Len(PairText(p, ws)))),
     key |-> new_span(s, Range(at + 1, at + 1 + Len(p.key))),
     value |-> Node(s, p.value, at + Len(p.key) + 3 + Len(ws))]
Node(s, d, at) ==
    IF d.k = "num" THEN [kind |-> "Number", span |-> new_span(s, Range(at, at + Len(d.text)))]
    ELSE IF d.k = "str"
    THEN [kind |-> "String", span |-> new_span(s, Range(at + 1, at + 1 + Len(d.text)))]
    ELSE IF d.k = "arr"
    THEN [kind |-> "Array", span |-> new_span(s, Range(at, at + Len(Text(d)))),
          elems |-> [i \in 1..Len(d.elems) |-> Node(s, d.elems[i], ElemAt(d, at, i))]]
    ELSE [kind |-> "Object", span |-> new_span(s, Range(at, at + Len(Text(d)))),
          elems |-> [i \in 1..Len(d.pairs) |->
                        KeyValueNode(s, d.pairs[i], d.ws, PairAt(d, at, i))]]

\* The inner documents: 42, "x", [42, 14], [], {"b":1} and {"b": [42, 14]}
Inner ==
    { Num(<<52, 50>>), Str(<<120>>),
      Arr(<<Num(<<52, 50>>), Num(<<49, 52>>)>>, <<SP>>),
      Arr(<<>>, <<>>),
      Obj(<<Pair(<<98>>, Num(<<49>>))>>, <<>>),
      Obj(<<Pair(<<98>>, Arr(<<Num(<<52, 50>>), Num(<<49, 52>>)>>, <<SP>>))>>, <<SP>>) }

\* The keys of the outer object: a, b and a.b
Keys == {<<97>>, <<98>>, <<97, DOT, 98>>}

\* The outer documents: arrays and objects of up to MaxElems inner
\* documents, written with and without whitespace
JsonDocs ==
    {Arr(elems, ws) : elems \in SeqsUpTo(Inner, MaxElems), ws \in {<<>>, <<SP>>}}
    \cup {Obj(pairs, ws) :
            pairs \in SeqsUpTo({Pair(key, value) : key \in Keys, value \in Inner}, MaxElems),
            ws \in {<<>>, <<SP>>}}

\* The paths asked for: a, b, x, a.b, a.b.1, a.1, a., the empty path, 0, 1,
\* 2, +1, 01, 1.b, 1.b.0 and 0.0
Paths ==
    { <<97>>, <<98>>, <<120>>, <<97, DOT, 98>>, <<97, DOT, 98, DOT, 49>>,
      <<97, DOT, 49>>, <<97, DOT>>, <<>>, <<48>>, <<49>>, <<50>>, <<PLUS, 49>>,
      <<48, 49>>, <<49, DOT, 98>>, <<49, DOT, 98, DOT, 48>>, <<48, DOT, 48>> }

\* The keys an object is indexed with
IndexKeys == Keys \cup {<<120>>}

\* The containers the accessors are called on: the outer value and the
\* values directly in it
Targets(value) ==
    {value} \cup (IF value.kind = "Array" THEN {value.elems[i] : i \in 1..Len(value.elems)}
                  ELSE {value.elems[i].value : i \in 1..Len(value.elems)})

\* The offsets the JSON values are shifted by
JsonOffsets == {0, 1, 5, USIZE_MAX}

\* every span JsonValue::offset reaches from a value: its own, and for a
\* container those of its elements, pairs and keys
RECURSIVE value_spans(_)
RECURSIVE elems_spans(_, _)
value_spans(v) ==
    <<v.span>> \o (IF v.kind \in {"Array", "Object"} THEN elems_spans(v.elems, v.kind) ELSE <<>>)

elems_spans(elems, kind) ==
    IF elems = <<>> THEN <<>>
    ELSE (IF kind = "Array" THEN value_spans(elems[1])
          ELSE <<elems[1].span, elems[1].key>> \o value_spans(elems[1].value))
         \o elems_spans(Tail(elems), kind)

\* JsonValue::offset: the value's span, and for an array every element,
\* for an object every pair's span, key and value
RECURSIVE value_shifted(_, _)
value_shifted(v, d) ==
    IF v.kind = "Array"
    THEN [v EXCEPT !.span = span_offset(v.span, d),
                   !.elems = [i \in DOMAIN v.elems |-> value_shifted(v.elems[i], d)]]
    ELSE IF v.kind = "Object"
    THEN [v EXCEPT !.span = span_offset(v.span, d),
                   !.elems = [i \in DOMAIN v.elems |->
                                 [span |-> span_offset(v.elems[i].span, d),
                                  key |-> span_offset(v.elems[i].key, d),
                                  value |-> value_shifted(v.elems[i].value, d)]]]
    ELSE [v EXCEPT !.span = span_offset(v.span, d)]

json_value_offset(v, d) ==
    IF \E k \in DOMAIN value_spans(v) : shift_right_overflows(value_spans(v)[k].indices, d)
    THEN Panic("overflow")
    ELSE Ok(value_shifted(v, d))

\* the offset of impl_type!: Array, Object, KeyValue and the leaves shift
\* the span the macro is given, self.span or self.0
impl_type_offset(t, d) ==
    IF shift_right_overflows(t.span.indices, d) THEN Panic("overflow")
    ELSE Ok([t EXCEPT !.span = span_offset(t.span, d)])

\* the pairs of the objects among the targets
PairTargets(value) ==
    UNION {{object.elems[i] : i \in 1..Len(object.elems)} :
             object \in {v \in Targets(value) : v.kind = "Object"}}

InitJson ==
    /\ input \in JsonDocs
    /\ src = Text(input)
    /\ offset = 0
    /\ res = Ok(Node(Text(input), input, 0))
    /\ pos = 0
    /\ items = <<>>
    /\ op = "new"
    /\ call = NoCall
    /\ out = NoCall

\* value.get(path)
Get ==
    /\ op = "new"
    /\ \E path \in Paths :
          /\ call' = [f |-> "get", target |-> res.val, path |-> path]
          /\ out' = Ok(value_get(res.val, path))
    /\ op' = "get"
    /\ UNCHANGED <<src, input, offset, res, pos, items>>

\* object[key]
ObjectIndex ==
    /\ op = "new" /\ res.val.kind = "Object"
    /\ \E key \in IndexKeys :
          /\ call' = [f |-> "index", target |-> res.val, key |-> key]
          /\ out' = object_index(res.val, key)
    /\ op' = "object_index"
    /\ UNCHANGED <<src, input, offset, res, pos, items>>

\* array[index]
ArrayIndex ==
    /\ op = "new" /\ res.val.kind = "Array"
    /\ \E index \in 0..MaxElems :
          /\ call' = [f |-> "index", target |-> res.val, index |-> index]
          /\ out' = array_index(res.val, index)
    /\ op' = "array_index"
    /\ UNCHANGED <<src, input, offset, res, pos, items>>

\* object.without_pairs()
WithoutPairs ==
    /\ op = "new"
    /\ \E object \in {v \in Targets(res.val) : v.kind = "Object"} :
          /\ call' = [f |-> "without_pairs", target |-> object]
          /\ out' = Ok(without_pairs(object))
    /\ op' = "without_pairs"
    /\ UNCHANGED <<src, input, offset, res, pos, items>>

\* kv.without_value()
WithoutValue ==
    /\ op = "new"
    /\ \E object \in {v \in Targets(res.val) : v.kind = "Object"} :
       \E i \in 1..Len(object.elems) :
          /\ call' = [f |-> "without_value", target |-> object.elems[i]]
          /\ out' = Ok(without_value(object.elems[i]))
    /\ op' = "without_value"
    /\ UNCHANGED <<src, input, offset, res, pos, items>>

\* array.without_values()
WithoutValues ==
    /\ op = "new"
    /\ \E array \in {v \in Targets(res.val) : v.kind = "Array"} :
          /\ call' = [f |-> "without_values", target |-> array]
          /\ out' = without_values(array)
    /\ op' = "without_values"
    /\ UNCHANGED <<src, input, offset, res, pos, items>>

\* value.offset(d) on the JsonValue
JsonValueOffset ==
    /\ op = "new"
    /\ \E d \in JsonOffsets :
          /\ call' = [f |-> "offset", target |-> res.val, d |-> d]
          /\ out' = json_value_offset(res.val, d)
    /\ op' = "json_value_offset"
    /\ UNCHANGED <<src, input, offset, res, pos, items>>

\* array.offset(d), object.offset(d), kv.offset(d) on the typed values
ImplTypeOffset ==
    /\ op = "new"
    /\ \E d \in JsonOffsets : \E t \in Targets(res.val) \cup PairTargets(res.val) :
          /\ call' = [f |-> "offset", target |-> t, d |-> d]
          /\ out' = impl_type_offset(t, d)
    /\ op' = "impl_type_offset"
    /\ UNCHANGED <<src, input, offset, res, pos, items>>

NextJson ==
    \/ Get
    \/ ObjectIndex
    \/ ArrayIndex
    \/ WithoutPairs
    \/ WithoutValue
    \/ WithoutValues
    \/ JsonValueOffset
    \/ ImplTypeOffset

SpecJson == InitJson /\ [][NextJson]_vars


\* The segments of a path: the bytes between its dots
RECURSIVE Segments(_)
Segments(path) ==
    IF \A i \in 1..Len(path) : path[i] # DOT THEN <<path>>
    ELSE LET i == CHOOSE x \in 1..Len(path) :
                      path[x] = DOT /\ \A y \in 1..(x - 1) : path[y] # DOT
         IN  <<SubSeq(path, 1, i - 1)>> \o Segments(SubSeq(path, i + 1, Len(path)))

\* A segment that is an unsigned integer, with or without a plus sign, and
\* its value
IsIndex(seg) == AllDigits(seg) \/ (seg # <<>> /\ seg[1] = PLUS /\ AllDigits(Tail(seg)))
IndexOf(seg) == IF seg[1] = PLUS THEN Decimal(Tail(seg)) ELSE Decimal(seg)

\* The pairs of an object with the given key
PairsWithKey(object, key) == {i \in 1..Len(object.elems) : object.elems[i].key.data = key}
FirstPair(object, key) ==
    CHOOSE i \in PairsWithKey(object, key) : \A j \in PairsWithKey(object, key) : i <= j

\* The node reached from a node by a sequence of segments
RECURSIVE Walk(_, _)
Walk(node, segs) ==
    IF segs = <<>> THEN Some(node)
    ELSE IF node.kind = "Object"
    THEN IF PairsWithKey(node, segs[1]) = {} THEN None
         ELSE Walk(node.elems[FirstPair(node, segs[1])].value, Tail(segs))
    ELSE IF node.kind = "Array"
    THEN IF IsIndex(segs[1]) /\ IndexOf(segs[1]) < Len(node.elems)
         THEN Walk(node.elems[IndexOf(segs[1]) + 1], Tail(segs))
         ELSE None
    ELSE None

\* C17: get(path) takes the path apart at its dots and consumes the
\* segments from the left: on an object a segment is a key and the search
\* goes on in the value of the first pair with that key, on an array it is
\* an unsigned integer index; the result is the node reached after the
\* last segment, and None when a key is absent, a segment on an array is no
\* integer or out of bounds, or a segment is left at a leaf.
C17_GetFollowsPath ==
    op = "get" => out.val = Walk(res.val, Segments(call.path))

\* a.b.1 in an object with two pairs of key a leads to the 14 of the first
C17_Witness ==
    /\ op = "get"
    /\ call.path = <<97, DOT, 98, DOT, 49>>
    /\ res.val.kind = "Object"
    /\ PairsWithKey(res.val, <<97>>) = {1, 2}
    /\ out.val # None
    /\ out.val[1].span.data = <<49, 52>>
    /\ Within(out.val[1].span.indices, res.val.elems[1].span.indices)

\* C18 as stated: object[key] is the value of the pair with that key
\* whenever there is one, whatever bytes the key has, and panics exactly
\* when there is none; array[i] is element i when i is in bounds and panics
\* otherwise; get never panics.
C18_AsStated ==
    /\ op = "object_index" =>
          IF PairsWithKey(call.target, call.key) = {} THEN out.tag = "Panic"
          ELSE out = Ok(call.target.elems[FirstPair(call.target, call.key)].value)
    /\ op = "array_index" =>
          IF call.index < Len(call.target.elems)
          THEN out = Ok(call.target.elems[call.index + 1])
          ELSE out.tag = "Panic"
    /\ op = "get" => out.tag = "Ok"


\* The indices of the spans of the children of a container or a pair
PairIndices(object) ==
    UNION {IndicesOf(object.elems[i].span.indices) : i \in 1..Len(object.elems)}
ElemIndices(array) ==
    UNION {IndicesOf(array.elems[i].span.indices) : i \in 1..Len(array.elems)}

\* C19: without_pairs() of an object is its span less the spans of all its
\* pairs, and without_value() of a pair is its span less the span of its
\* value; the result has no index in common with the children taken away
\* and together with them makes up the span of the parent.
C19_WithoutChildren ==
    /\ op = "without_pairs" =>
          /\ IndicesOf(out.val) = IndicesOf(call.target.span.indices) \ PairIndices(call.target)
          /\ IndicesOf(out.val) \cap PairIndices(call.target) = {}
          /\ IndicesOf(out.val) \cup PairIndices(call.target)
                = IndicesOf(call.target.span.indices)
    /\ op = "without_value" =>
          /\ IndicesOf(out.val) = IndicesOf(call.target.span.indices)
                                    \ IndicesOf(call.target.value.span.indices)
          /\ IndicesOf(out.val) \cap IndicesOf(call.target.value.span.indices) = {}
          /\ IndicesOf(out.val) \cup IndicesOf(call.target.value.span.indices)
                = IndicesOf(call.target.span.indices)

\* An object of two pairs written with whitespace: the brace, the comma
\* and space, and the line feed and brace are left
C19_Witness ==
    /\ op = "without_pairs"
    /\ Len(call.target.elems) = 2
    /\ Len(out.val) = 3
    /\ out.val[1] = Range(0, 1)
    /\ out.val[2].end - out.val[2].start = 2
    /\ out.val[3].end = Len(src)

\* C20 as stated: without_values() of an array is its span less the spans
\* of its elements: the brackets and the commas and whitespace between the
\* elements.
C20_AsStated ==
    op = "without_values" =>
        /\ out.tag = "Ok"
        /\ IndicesOf(out.val) = IndicesOf(call.target.span.indices) \ ElemIndices(call.target)

\* C20: without_values() of an array is the index of its opening bracket
\* and the index of its closing bracket, nothing else: no index of an
\* element, and no comma or whitespace either.
C20_BracketsOnly ==
    op = "without_values" =>
        /\ out.tag = "Ok"
        /\ IndicesOf(out.val) = {call.target.span.indices[1].start,
                                 call.target.span.indices[1].end - 1}
        /\ IndicesOf(out.val) \subseteq
              IndicesOf(call.target.span.indices) \ ElemIndices(call.target)
        /\ src[call.target.span.indices[1].start + 1] = LBRACKET
        /\ src[call.target.span.indices[1].end] = RBRACKET

\* An inner array of two elements with a comma and a space between them
\* and a line feed after them: two indices are returned, and the comma, the
\* space and the line feed are not among them
C20_Witness ==
    /\ op = "without_values"
    /\ Len(call.target.elems) = 2
    /\ call.target.span.indices[1].start > 0
    /\ Len(out.val) = 2
    /\ RangeSetLen(out.val) = 2
    /\ Cardinality(IndicesOf(call.target.span.indices) \ ElemIndices(call.target)) = 5

\* every span of an entity, in document order: of a value, or of a pair
SpansOf(t) == IF "kind" \in DOMAIN t THEN value_spans(t) ELSE <<t.span, t.key>> \o value_spans(t.value)

ShiftedBy(after, before, d) ==
    /\ Len(after) = Len(before)
    /\ \A k \in DOMAIN before :
          /\ after[k].data = before[k].data
          /\ after[k].indices = [i \in DOMAIN before[k].indices |->
                                    Range(before[k].indices[i].start + d, before[k].indices[i].end + d)]

\* C25 as stated: after offset(d) on a JsonValue, Array, Object or
\* KeyValue the entity's own span and every span nested in it are shifted
\* by d
C25_AsStated ==
    (op \in {"json_value_offset", "impl_type_offset"} /\ out.tag = "Ok") =>
        ShiftedBy(SpansOf(out.val), SpansOf(call.target), call.d)

\* JsonValue::offset alone shifts every span
C25_JsonValue ==
    (op = "json_value_offset" /\ out.tag = "Ok") =>
        ShiftedBy(SpansOf(out.val), SpansOf(call.target), call.d)

(***************************************************************************)
(* JsonSpanner (json/span.rs): the recursive-descent parser, one step per  *)
(* loop iteration.  src is the input slice, pos the reader's byte offset,  *)
(* call the function the parser is in, items the stack of suspended        *)
(* callers, res the value parse() returns, out the value of end().         *)
(* The reader behind peek/eat_char/next_char (json/read.rs) is a cursor    *)
(* over the slice.                                                         *)
(***************************************************************************)
NoByte == 0 - 1

Running == [tag |-> "None"]

peek(s, p) == IF p < Len(s) THEN s[p + 1] ELSE NoByte

peek_or_null(s, p) == IF p < Len(s) THEN s[p + 1] ELSE 0

\* discard(): the index moves on unconditionally
eat_char(p) == p + 1

\* next(): the byte under the cursor, consumed when there is one
next_char(s, p) == IF p < Len(s) THEN [c |-> s[p + 1], pos |-> p + 1] ELSE [c |-> NoByte, pos |-> p]

next_char_or_null(s, p) == IF p < Len(s) THEN [c |-> s[p + 1], pos |-> p + 1] ELSE [c |-> 0, pos |-> p]

is_whitespace(c) == c \in {SP, LF, HT, CR}

\* the parser's configuration after a step
Cfg(p, c, st, r) == [pos |-> p, call |-> c, items |-> st, res |-> r]

Done == [fn |-> "done"]

\* an Err(..)? unwinds every caller
fail(p, code) == Cfg(p, Done, <<>>, Err(code))

JsonNull(a, b) == [kind |-> "Null", range |-> Range(a, b)]

JsonBool(a, b) == [kind |-> "Bool", range |-> Range(a, b)]

JsonNumber(a, b) == [kind |-> "Number", range |-> Range(a, b)]

JsonString(a, b) == [kind |-> "String", range |-> Range(a, b)]

JsonArray(a, b, elems) == [kind |-> "Array", range |-> Range(a, b), elems |-> elems]

JsonObject(a, b, elems) == [kind |-> "Object", range |-> Range(a, b), elems |-> elems]

JsonKey(a, b) == [range |-> Range(a, b)]

\* Ok(value) handed to the caller on top of the stack: parse() itself,
\* the array loop (elems.push) or parse_kv inside the object loop
return_value(p, st, v) ==
    IF st = <<>> THEN Cfg(p, Done, <<>>, Ok(v))
    ELSE IF st[Len(st)].fn = "parse_array"
    THEN Cfg(p, [fn |-> "parse_array", start |-> st[Len(st)].start,
                 elems |-> Append(st[Len(st)].elems, v)],
             SubSeq(st, 1, Len(st) - 1), Running)
    ELSE Cfg(p, [fn |-> "parse_object", start |-> st[Len(st)].start,
                 elems |-> Append(st[Len(st)].elems,
                                  [key |-> st[Len(st)].key, value |-> v])],
             SubSeq(st, 1, Len(st) - 1), Running)

\* SliceRead::ignore_str after the opening quote: the offset after the
\* closing quote, or NoByte when the input ends inside the string
RECURSIVE ignore_str(_, _)
ignore_str(s, p) ==
    IF p >= Len(s) THEN NoByte
    ELSE IF s[p + 1] = QUOTE THEN p + 1
    ELSE IF s[p + 1] = 92
    THEN IF p + 1 >= Len(s) THEN NoByte ELSE ignore_str(s, p + 2)
    ELSE ignore_str(s, p + 1)

\* parse_ident: every byte of the identifier must come next
RECURSIVE parse_ident(_, _, _)
parse_ident(s, p, ident) ==
    IF ident = <<>> THEN Ok(p)
    ELSE IF next_char(s, p).c = NoByte THEN Err("EofWhileParsingValue")
    ELSE IF next_char(s, p).c # Head(ident) THEN Err("ExpectedSomeIdent")
    ELSE parse_ident(s, next_char(s, p).pos, Tail(ident))

ident_value(p, st, kind, start, q) ==
    IF q.tag = "Err" THEN fail(p, q.err)
    ELSE return_value(q.val, st, IF kind = "null" THEN JsonNull(start, q.val)
                                 ELSE JsonBool(start, q.val))

parse_string_end(p, st, start, q) ==
    IF q = NoByte THEN fail(p, "EofWhileParsingString")
    ELSE return_value(q, st, JsonString(start, q))

parse_string(s, p, st, start) == parse_string_end(p, st, start, ignore_str(s, p))

parse_exponent_digit(p, st, start, n) ==
    IF IsDigit(n.c) THEN Cfg(n.pos, [fn |-> "parse_exponent.digits", start |-> start], st, Running)
    ELSE fail(p, "InvalidNumber")

parse_exponent_sign(s, p, st, start) ==
    parse_exponent_digit(p, st, start,
        next_char_or_null(s, IF peek_or_null(s, p) \in {PLUS, MINUS} THEN eat_char(p) ELSE p))

parse_exponent(s, p, st, start) == parse_exponent_sign(s, eat_char(p), st, start)

\* what follows the integer part: a fraction, an exponent, or the end
number_tail(s, p, st, start) ==
    IF peek_or_null(s, p) = DOT
    THEN Cfg(eat_char(p), [fn |-> "parse_decimal.digits", start |-> start,
                           at_least_one_digit |-> FALSE], st, Running)
    ELSE IF peek_or_null(s, p) \in {101, 69} THEN parse_exponent(s, p, st, start)
    ELSE return_value(p, st, JsonNumber(start, p))

parse_integer_first(s, p, st, start, n) ==
    IF n.c = Digit0
    THEN IF IsDigit(peek_or_null(s, n.pos)) THEN fail(n.pos, "InvalidNumber")
         ELSE number_tail(s, n.pos, st, start)
    ELSE IF IsDigit(n.c) THEN Cfg(n.pos, [fn |-> "parse_integer.digits", start |-> start], st, Running)
    ELSE fail(n.pos, "InvalidNumber")

parse_integer(s, p, st, start) == parse_integer_first(s, p, st, start, next_char_or_null(s, p))

\* one iteration of `while let b'0'..=b'9' = peek_or_null()` in parse_integer
parse_integer_digits(s, p, st, c) ==
    IF IsDigit(peek_or_null(s, p)) THEN Cfg(eat_char(p), c, st, Running)
    ELSE number_tail(s, p, st, c.start)

\* one iteration of the digit loop in parse_decimal, and what follows it
parse_decimal_digits(s, p, st, c) ==
    IF IsDigit(peek_or_null(s, p))
    THEN Cfg(eat_char(p), [c EXCEPT !.at_least_one_digit = TRUE], st, Running)
    ELSE IF ~c.at_least_one_digit THEN fail(p, "InvalidNumber")
    ELSE IF peek_or_null(s, p) \in {101, 69} THEN parse_exponent(s, p, st, c.start)
    ELSE return_value(p, st, JsonNumber(c.start, p))

\* one iteration of the digit loop in parse_exponent
parse_exponent_digits(s, p, st, c) ==
    IF IsDigit(peek_or_null(s, p)) THEN Cfg(eat_char(p), c, st, Running)
    ELSE return_value(p, st, JsonNumber(c.start, p))

\* parse_value after its parse_whitespace: the match on the peeked byte
parse_value(s, p, st, start) ==
    IF peek(s, p) = NoByte THEN fail(p, "EofWhileParsingValue")
    ELSE IF peek(s, p) = 110
    THEN ident_value(eat_char(p), st, "null", start, parse_ident(s, eat_char(p), <<117, 108, 108>>))
    ELSE IF peek(s, p) = 116
    THEN ident_value(eat_char(p), st, "true", start, parse_ident(s, eat_char(p), <<114, 117, 101>>))
    ELSE IF peek(s, p) = 102
    THEN ident_value(eat_char(p), st, "false", start, parse_ident(s, eat_char(p), <<97, 108, 115, 101>>))
    ELSE IF peek(s, p) = MINUS THEN Cfg(eat_char(p), [fn |-> "parse_integer", start |-> start], st, Running)
    ELSE IF IsDigit(peek(s, p)) THEN Cfg(p, [fn |-> "parse_integer", start |-> start], st, Running)
    ELSE IF peek(s, p) = QUOTE THEN parse_string(s, eat_char(p), st, start)
    ELSE IF peek(s, p) = LBRACKET
    THEN Cfg(eat_char(p), [fn |-> "parse_array", start |-> start, elems |-> <<>>], st, Running)
    ELSE IF peek(s, p) = LBRACE
    THEN Cfg(eat_char(p), [fn |-> "parse_object", start |-> start, elems |-> <<>>], st, Running)
    ELSE fail(p, "ExpectedSomeValue")

\* variant: the comma arm of the array loop leaves the comma unread
parse_array_keeps_comma(s, p, st, c) ==
    IF peek(s, p) = NoByte THEN fail(p, "EofWhileParsingList")
    ELSE IF peek(s, p) = RBRACKET
    THEN return_value(eat_char(p), st, JsonArray(c.start, eat_char(p), c.elems))
    ELSE IF peek(s, p) = COMMA THEN Cfg(p, c, st, Running)
    ELSE Cfg(p, [fn |-> "parse_value", start |-> p], Append(st, c), Running)

\* one iteration of the loop in parse_array, after its parse_whitespace
parse_array(s, p, st, c) ==
    IF peek(s, p) = NoByte THEN fail(p, "EofWhileParsingList")
    ELSE IF peek(s, p) = RBRACKET
    THEN return_value(eat_char(p), st, JsonArray(c.start, eat_char(p), c.elems))
    ELSE IF peek(s, p) = COMMA THEN Cfg(eat_char(p), c, st, Running)
    ELSE Cfg(p, [fn |-> "parse_value", start |-> p], Append(st, c), Running)

parse_key_end(p, st, c, start, q) ==
    IF q = NoByte THEN fail(p, "EofWhileParsingString")
    ELSE Cfg(q, [fn |-> "parse_object_colon"],
             Append(st, [fn |-> "parse_kv", start |-> c.start, elems |-> c.elems,
                         key |-> JsonKey(start, q)]), Running)

\* parse_key(start), entered by parse_kv on a byte that is not whitespace
parse_key(s, p, st, c, start) ==
    IF peek(s, p) = QUOTE THEN parse_key_end(p, st, c, start, ignore_str(s, eat_char(p)))
    ELSE fail(p, "KeyMustBeAString")

\* one iteration of the loop in parse_object, after its parse_whitespace;
\* a pair begins with parse_kv(byte_offset), which begins with parse_key
parse_object(s, p, st, c) ==
    IF peek(s, p) = NoByte THEN fail(p, "EofWhileParsingObject")
    ELSE IF peek(s, p) = RBRACE
    THEN return_value(eat_char(p), st, JsonObject(c.start, eat_char(p), c.elems))
    ELSE IF peek(s, p) = COMMA THEN Cfg(eat_char(p), c, st, Running)
    ELSE parse_key(s, p, st, c, p)

\* parse_object_colon after its parse_whitespace, then parse_kv's
\* parse_value(byte_offset)
parse_object_colon(s, p, st) ==
    IF peek(s, p) = COLON
    THEN Cfg(eat_char(p), [fn |-> "parse_value", start |-> eat_char(p)], st, Running)
    ELSE IF peek(s, p) = NoByte THEN fail(p, "EofWhileParsingObject")
    ELSE fail(p, "ExpectedColon")

\* end() after its parse_whitespace
end(s, p) == IF peek(s, p) = NoByte THEN Ok(<<>>) ELSE Err("TrailingCharacters")

\* the functions that begin with parse_whitespace
SkipsWhitespace == {"parse_value", "parse_array", "parse_object", "parse_object_colon", "end"}

(***************************************************************************)
(* Inputs of the parser: every short text over the bytes of a number, in   *)
(* each position a value can take; arrays and objects with every kind of   *)
(* separator; whole documents with leading and trailing bytes; and every   *)
(* prefix of a document.                                                   *)
(***************************************************************************)
MaxNumLen == 4

MaxItems == 2

Lit(text) == [k |-> "lit", text |-> text]

PArr(open, elems, sep, close) == [k |-> "arr", open |-> open, elems |-> elems, sep |-> sep, close |-> close]

PPair(key, colon, value) == [key |-> key, colon |-> colon, value |-> value]

PObj(open, pairs, sep, close) == [k |-> "obj", open |-> open, pairs |-> pairs, sep |-> sep, close |-> close]

RECURSIVE Render(_)
RECURSIVE RenderAll(_, _, _)
Render(d) ==
    IF d.k = "lit" THEN d.text
    ELSE IF d.k = "arr"
    THEN <<LBRACKET>> \o d.open \o RenderAll(d.elems, d.sep, FALSE) \o d.close \o <<RBRACKET>>
    ELSE <<LBRACE>> \o d.open \o RenderAll(d.pairs, d.sep, TRUE) \o d.close \o <<RBRACE>>

RenderAll(ds, sep, pairs) ==
    IF ds = <<>> THEN <<>>
    ELSE (IF pairs THEN ds[1].key \o ds[1].colon \o Render(ds[1].value) ELSE Render(ds[1]))
         \o (IF Len(ds) = 1 THEN <<>> ELSE sep \o RenderAll(Tail(ds), sep, pairs))

NumberBytes == {MINUS, Digit0, 49, DOT, 101, PLUS}

NumberTexts == SeqsUpTo(NumberBytes, MaxNumLen) \ {<<>>}

KEY_A == <<QUOTE, 97, QUOTE>>

STR_B == <<QUOTE, 98, QUOTE>>

STR_ESC == <<QUOTE, 92, QUOTE, 99, QUOTE>>

N12 == <<49, 50>>

N1E1 == <<MINUS, 49, DOT, 53, 69, MINUS, 49>>

NULL == <<110, 117, 108, 108>>

TRUE_ == <<116, 114, 117, 101>>

FALSE_ == <<102, 97, 108, 115, 101>>

Scalars == {Lit(N12), Lit(STR_B), Lit(NULL)}

MoreScalars == {Lit(N1E1), Lit(STR_ESC), Lit(TRUE_), Lit(FALSE_), Lit(<<110, 117, 108>>),
                Lit(<<116, 114, 121>>), Lit(<<63>>)}

Seps == {<<COMMA>>, <<COMMA, SP>>, <<SP>>, <<COMMA, COMMA>>, <<LF, COMMA>>}

Opens == {<<>>, <<HT>>, <<COMMA>>}

Closes == {<<>>, <<CR>>, <<COMMA>>}

Colons == {<<COLON>>, <<COLON, SP>>, <<SP, COLON>>}

PArrays == {PArr(o, es, s, c) : o \in Opens, es \in SeqsUpTo(Scalars, MaxItems), s \in Seps, c \in Closes}

Pairs == {PPair(KEY_A, c, v) : c \in Colons, v \in {Lit(N12), Lit(STR_B)}}
             \cup {PPair(N12, <<COLON>>, Lit(N12)), PPair(KEY_A, <<SP>>, Lit(N12))}

PObjects == {PObj(o, ps, s, c) : o \in {<<>>, <<COMMA>>}, ps \in SeqsUpTo(Pairs, MaxItems),
                                 s \in {<<COMMA>>, <<COMMA, SP>>, <<SP>>}, c \in {<<>>, <<COMMA>>}}

InnerDocs == {PArr(<<>>, <<Lit(N12)>>, <<COMMA>>, <<>>), PArr(<<>>, <<>>, <<COMMA>>, <<SP>>),
          PObj(<<>>, <<PPair(KEY_A, <<COLON, SP>>, Lit(STR_B))>>, <<COMMA>>, <<>>)}

NestedDocs == {PArr(<<>>, <<i, j>>, s, <<>>) : i \in InnerDocs, j \in InnerDocs \cup {Lit(N12)}, s \in {<<COMMA, SP>>, <<>>}}
              \cup {PObj(<<>>, <<PPair(KEY_A, c, i)>>, <<COMMA>>, <<>>) : c \in {<<COLON>>, <<COLON, SP>>}, i \in InnerDocs}

Leads == {<<>>, <<SP>>, <<LF, SP>>}

Trails == {<<>>, <<SP>>, <<SP, LF>>, <<120>>, <<SP, 49>>, <<COMMA>>, <<RBRACKET>>}

WholeDocs == Scalars \cup MoreScalars \cup InnerDocs \cup NestedDocs

\* the positions a number can take: alone, after whitespace, in an array,
\* as the value of a pair
NumberInputs ==
    {[family |-> "number", ctx |-> c, text |-> t] :
        c \in {"top", "lead", "array", "pair"}, t \in NumberTexts}

DocInputs ==
    {[family |-> "doc", lead |-> <<>>, d |-> d, trail |-> <<>>] : d \in PArrays \cup PObjects}
        \cup {[family |-> "doc", lead |-> l, d |-> d, trail |-> t] : l \in Leads, d \in WholeDocs, t \in Trails}

CutInputs ==
    {[family |-> "cut", d |-> d, cut |-> n] : d \in InnerDocs \cup NestedDocs \cup MoreScalars, n \in 0..12}

ParseInputs == NumberInputs \cup DocInputs \cup CutInputs

NumberStart(i) == CASE i.ctx = "top" -> 0 [] i.ctx = "lead" -> 1 [] i.ctx = "array" -> 1 [] OTHER -> 6

TextOf(i) ==
    IF i.family = "number"
    THEN CASE i.ctx = "top" -> i.text
           [] i.ctx = "lead" -> <<SP>> \o i.text
           [] i.ctx = "array" -> <<LBRACKET>> \o i.text \o <<RBRACKET>>
           [] OTHER -> <<LBRACE>> \o KEY_A \o <<COLON, SP>> \o i.text \o <<RBRACE>>
    ELSE IF i.family = "doc" THEN i.lead \o Render(i.d) \o i.trail
    ELSE SubSeq(Render(i.d), 1, Min(i.cut, Len(Render(i.d))))

\* JsonVisit (json/visit.rs): the default methods of the trait.  A visitor
\* is the set of hooks it overrides; what a run leaves behind is the list
\* of the leaf and key hooks called, each with its node and whether the
\* body that ran was the visitor's own.
LeafHooks == {"visit_null", "visit_bool", "visit_number", "visit_string", "visit_key"}

\* visit_null, visit_bool, visit_number, visit_string, visit_key: the
\* default body does nothing, an overriding one is the visitor's
visit_leaf(hook, node, overridden) == <<[hook |-> hook, node |-> node, custom |-> hook \in overridden]>>

visit_key(node, overridden) == visit_leaf("visit_key", node, overridden)

RECURSIVE visit_value(_, _)
RECURSIVE visit_array(_, _)
RECURSIVE visit_object(_, _)
\* visit_array with the elements visited last to first
RECURSIVE visit_array_backwards(_, _)
visit_array_backwards(elems, overridden) ==
    IF elems = <<>> THEN <<>>
    ELSE visit_array_backwards(Tail(elems), overridden) \o visit_value(elems[1], overridden)

visit_key_value(node, overridden) == visit_key(node.key, overridden) \o visit_value(node.value, overridden)

\* for elem in &node.elems
visit_array(elems, overridden) ==
    IF elems = <<>> THEN <<>>
    ELSE visit_value(elems[1], overridden) \o visit_array(Tail(elems), overridden)

\* for kv in &node.elems
visit_object(elems, overridden) ==
    IF elems = <<>> THEN <<>>
    ELSE visit_key_value(elems[1], overridden) \o visit_object(Tail(elems), overridden)

visit_value(node, overridden) ==
    CASE node.kind = "Null" -> visit_leaf("visit_null", node, overridden)
      [] node.kind = "Bool" -> visit_leaf("visit_bool", node, overridden)
      [] node.kind = "Number" -> visit_leaf("visit_number", node, overridden)
      [] node.kind = "String" -> visit_leaf("visit_string", node, overridden)
      [] node.kind = "Array" -> visit_array(node.elems, overridden)
      [] node.kind = "Object" -> visit_object(node.elems, overridden)

\* the visitors: the default one, one hook overridden, all of them
Visitors == {{}} \cup {{h} : h \in LeafHooks} \cup {LeafHooks}

\* JsonSpanner::new(src): the reader at offset 0; parse() takes start there
InitParse ==
    /\ input \in ParseInputs
    /\ src = TextOf(input)
    /\ offset = 0
    /\ pos = 0
    /\ items = <<>>
    /\ call = [fn |-> "parse_value", start |-> 0]
    /\ res = Running
    /\ out = NoCall
    /\ op = "new"

Goto(c, name) ==
    /\ pos' = c.pos
    /\ call' = c.call
    /\ items' = c.items
    /\ res' = c.res
    /\ op' = name
    /\ UNCHANGED <<src, input, offset, out>>

\* one iteration of the loop in parse_whitespace that eats a byte
ParseWhitespace ==
    /\ call.fn \in SkipsWhitespace
    /\ is_whitespace(peek(src, pos))
    /\ Goto(Cfg(eat_char(pos), call, items, res), "parse_whitespace")

ParseValue ==
    /\ call.fn = "parse_value"
    /\ ~is_whitespace(peek(src, pos))
    /\ Goto(parse_value(src, pos, items, call.start), "parse_value")

ParseInteger ==
    /\ call.fn = "parse_integer"
    /\ Goto(parse_integer(src, pos, items, call.start), "parse_integer")

ParseIntegerDigits ==
    /\ call.fn = "parse_integer.digits"
    /\ Goto(parse_integer_digits(src, pos, items, call), "parse_integer.digits")

ParseDecimalDigits ==
    /\ call.fn = "parse_decimal.digits"
    /\ Goto(parse_decimal_digits(src, pos, items, call), "parse_decimal.digits")

ParseExponentDigits ==
    /\ call.fn = "parse_exponent.digits"
    /\ Goto(parse_exponent_digits(src, pos, items, call), "parse_exponent.digits")

ParseArray ==
    /\ call.fn = "parse_array"
    /\ ~is_whitespace(peek(src, pos))
    /\ Goto(parse_array(src, pos, items, call), "parse_array")

ParseObject ==
    /\ call.fn = "parse_object"
    /\ ~is_whitespace(peek(src, pos))
    /\ Goto(parse_object(src, pos, items, call), "parse_object")

ParseObjectColon ==
    /\ call.fn = "parse_object_colon"
    /\ ~is_whitespace(peek(src, pos))
    /\ Goto(parse_object_colon(src, pos, items), "parse_object_colon")

\* the caller, holding Ok(value), calls end()
CallEnd ==
    /\ call.fn = "done"
    /\ res.tag = "Ok"
    /\ out = NoCall
    /\ call' = [fn |-> "end"]
    /\ op' = "call_end"
    /\ UNCHANGED <<src, input, offset, res, pos, items, out>>

End ==
    /\ call.fn = "end"
    /\ ~is_whitespace(peek(src, pos))
    /\ out' = end(src, pos)
    /\ call' = Done
    /\ op' = "end"
    /\ UNCHANGED <<src, input, offset, res, pos, items>>

\* visitor.visit_value(&value) on the value parse() returned
VisitValue ==
    /\ call.fn = "done"
    /\ res.tag = "Ok"
    /\ out = NoCall
    /\ \E overridden \in Visitors :
          out' = [f |-> "visit_value", overridden |-> overridden,
                  log |-> visit_value(res.val, overridden)]
    /\ op' = "visit_value"
    /\ UNCHANGED <<src, input, offset, res, pos, items, call>>

NextParse ==
    \/ ParseWhitespace
    \/ ParseValue
    \/ ParseInteger
    \/ ParseIntegerDigits
    \/ ParseDecimalDigits
    \/ ParseExponentDigits
    \/ ParseArray
    \/ ParseObject
    \/ ParseObjectColon
    \/ CallEnd
    \/ End
    \/ VisitValue

SpecParse == InitParse /\ [][NextParse]_vars

\* every value of the tree parse() returned, and every key of its objects
RECURSIVE ValuesIn(_)
ValuesIn(v) ==
    {v} \cup (IF v.kind = "Array" THEN UNION {ValuesIn(v.elems[i]) : i \in DOMAIN v.elems}
              ELSE IF v.kind = "Object" THEN UNION {ValuesIn(v.elems[i].value) : i \in DOMAIN v.elems}
              ELSE {})

KeysIn(v) == UNION {{o.elems[i].key : i \in DOMAIN o.elems} : o \in {n \in ValuesIn(v) : n.kind = "Object"}}

\* parse() has returned and end() is not called yet
Returned == call.fn = "done" /\ out = NoCall

\* C21 as stated: parse() accepts only one value followed by nothing but
\* whitespace; any other byte after the value is a syntax error
C21_AsStated ==
    (Returned /\ res.tag = "Ok") => \A i \in (pos + 1)..Len(src) : is_whitespace(src[i])

OnlyWhitespace(bytes) == \A i \in DOMAIN bytes : is_whitespace(bytes[i])

\* end(), called after parse(), is what accepts trailing whitespace and
\* nothing else: it fails with TrailingCharacters on any other byte
C21_EndRejectsTrailing ==
    (op = "end" /\ input.family = "doc" /\ input.d \in WholeDocs) =>
        /\ res.tag = "Ok"
        /\ res.val.range.end = Len(input.lead) + Len(Render(input.d))
        /\ out = (IF OnlyWhitespace(input.trail) THEN Ok(<<>>) ELSE Err("TrailingCharacters"))

\* the range is what lies between an opening quote and its closing quote
BetweenQuotes(r) ==
    /\ r.start >= 1
    /\ src[r.start] = QUOTE
    /\ ignore_str(src, r.start) = r.end + 1

\* C22 as stated: the span of every string value and of every key is the
\* text between the quotes, without the quotes and without whitespace
C22_AsStated ==
    (Returned /\ res.tag = "Ok") =>
        /\ \A v \in ValuesIn(res.val) : v.kind = "String" => BetweenQuotes(v.range)
        /\ \A key \in KeysIn(res.val) : BetweenQuotes(key.range)

Commas(bytes) == Cardinality({i \in DOMAIN bytes : bytes[i] = COMMA})

\* the document was written with one comma between neighbours and none
\* next to a delimiter
RECURSIVE ProperCommas(_)
ProperCommas(d) ==
    IF d.k = "lit" THEN TRUE
    ELSE /\ Commas(d.open) = 0
         /\ Commas(d.close) = 0
         /\ IF d.k = "arr"
            THEN /\ Len(d.elems) >= 2 => Commas(d.sep) = 1
                 /\ \A i \in DOMAIN d.elems : ProperCommas(d.elems[i])
            ELSE /\ Len(d.pairs) >= 2 => Commas(d.sep) = 1
                 /\ \A i \in DOMAIN d.pairs : ProperCommas(d.pairs[i].value)

\* C23 as stated: an array or object is accepted only when its elements
\* are separated by exactly one comma
C23_AsStated ==
    (Returned /\ res.tag = "Ok" /\ input.family = "doc") => ProperCommas(input.d)

AllDigitBytes(t) == \A i \in DOMAIN t : IsDigit(t[i])

IsIntegerPart(t) == t # <<>> /\ AllDigitBytes(t) /\ (Len(t) = 1 \/ t[1] # Digit0)

IsFraction(t) == t = <<>> \/ (Len(t) >= 2 /\ t[1] = DOT /\ AllDigitBytes(Tail(t)))

Unsigned(t) == IF t # <<>> /\ t[1] \in {PLUS, MINUS} THEN Tail(t) ELSE t

IsExponentPart(t) ==
    t = <<>> \/ (t[1] \in {101, 69} /\ Unsigned(Tail(t)) # <<>> /\ AllDigitBytes(Unsigned(Tail(t))))

Unminus(t) == IF t # <<>> /\ t[1] = MINUS THEN Tail(t) ELSE t

\* '-'? (0 | [1-9] digit*) ('.' digit+)? ([eE] [+-]? digit+)?
IsNumberText(t) ==
    \E a \in 0..Len(Unminus(t)) : \E b \in a..Len(Unminus(t)) :
        /\ IsIntegerPart(SubSeq(Unminus(t), 1, a))
        /\ IsFraction(SubSeq(Unminus(t), a + 1, b))
        /\ IsExponentPart(SubSeq(Unminus(t), b + 1, Len(Unminus(t))))

\* the values found where the text was put
ValuesAt(i, v) ==
    CASE i.ctx \in {"top", "lead"} -> IF pos = Len(src) THEN <<v>> ELSE <<>>
      [] i.ctx = "array" -> IF v.kind = "Array" THEN v.elems ELSE <<>>
      [] OTHER -> IF v.kind = "Object" THEN [k \in DOMAIN v.elems |-> v.elems[k].value] ELSE <<>>

AcceptedAsNumber ==
    /\ res.tag = "Ok"
    /\ Len(ValuesAt(input, res.val)) = 1
    /\ ValuesAt(input, res.val)[1].kind = "Number"

\* a text is accepted as one number exactly when it matches the grammar
C24_Grammar ==
    (Returned /\ input.family = "number") => (AcceptedAsNumber <=> IsNumberText(input.text))

\* C24 as stated: the grammar, and the Number's span is the matched text
C24_AsStated ==
    (Returned /\ input.family = "number") =>
        /\ AcceptedAsNumber <=> IsNumberText(input.text)
        /\ AcceptedAsNumber =>
               ValuesAt(input, res.val)[1].range
                   = Range(NumberStart(input), NumberStart(input) + Len(input.text))

\* the spans of a container's elements: the values of an array, the pairs
\* (key through value) of an object
ElementRanges(c) ==
    IF c.kind = "Array" THEN [i \in DOMAIN c.elems |-> c.elems[i].range]
    ELSE [i \in DOMAIN c.elems |-> Range(c.elems[i].key.range.start, c.elems[i].value.range.end)]

Delimited(c) ==
    /\ src[c.range.start + 1] = (IF c.kind = "Array" THEN LBRACKET ELSE LBRACE)
    /\ src[c.range.end] = (IF c.kind = "Array" THEN RBRACKET ELSE RBRACE)

ElementsFollowSeparator(c) ==
    \A i \in DOMAIN c.elems :
        /\ ElementRanges(c)[i].start >= 1
        /\ IF i = 1 THEN ElementRanges(c)[i].start = c.range.start + 1
           ELSE src[ElementRanges(c)[i].start] = COMMA

ElementsInside(c) ==
    \A i \in DOMAIN c.elems :
        c.range.start < ElementRanges(c)[i].start /\ ElementRanges(c)[i].end < c.range.end

ElementsInOrder(c) ==
    \A i \in DOMAIN c.elems : \A j \in DOMAIN c.elems :
        i < j => ElementRanges(c)[i].end <= ElementRanges(c)[j].start

Containers == {c \in ValuesIn(res.val) : c.kind \in {"Array", "Object"}}

\* C26 as stated: a container's span runs from its opening delimiter to
\* the closing one; an element's span starts right after the opening
\* delimiter or the comma before it; children lie strictly inside, apart
\* and in order
C26_AsStated ==
    (Returned /\ res.tag = "Ok") =>
        \A c \in Containers :
            Delimited(c) /\ ElementsFollowSeparator(c) /\ ElementsInside(c) /\ ElementsInOrder(c)

C26_Delimited == (Returned /\ res.tag = "Ok") => \A c \in Containers : Delimited(c)

C26_FollowSeparator == (Returned /\ res.tag = "Ok") => \A c \in Containers : ElementsFollowSeparator(c)

C26_Inside == (Returned /\ res.tag = "Ok") => \A c \in Containers : ElementsInside(c) /\ ElementsInOrder(c)

\* the parser under a scheduler that lets it run
SpecParseLive == InitParse /\ [][NextParse]_vars /\ WF_vars(NextParse)

\* how far a function is from handing over without reading a byte: a
\* digit loop returns to its caller, a container loop calls parse_value,
\* parse_value calls parse_integer, parse() returns, end() follows
Rank ==
    CASE call.fn \in {"parse_integer.digits", "parse_decimal.digits", "parse_exponent.digits"} -> 6
      [] call.fn \in {"parse_array", "parse_object", "parse_object_colon"} -> 5
      [] call.fn = "parse_value" -> 4
      [] call.fn = "parse_integer" -> 3
      [] call.fn = "done" /\ out = NoCall -> 2
      [] call.fn = "end" -> 1
      [] OTHER -> 0

Measure == 7 * (Len(src) - pos) + Rank

Consumes == pos' > pos /\ pos' <= Len(src)

\* C30: the parser terminates on every input: a step of the whitespace,
\* digit, array and object loops reads at least one byte or leaves the
\* loop towards its return, the read position never passes the end of the
\* input, and parse() returns a value or an error
C30_Terminates ==
    /\ [][Measure' < Measure /\ pos' <= Len(src)]_vars
    /\ [][op' \in {"parse_whitespace"} => Consumes]_vars
    /\ [][(call.fn = call'.fn /\ res' = Running) => Consumes]_vars
    /\ <>(call.fn = "done" /\ res.tag \in {"Ok", "Err"})

\* parse() has returned an array of two elements read through every loop
C30_Witness ==
    /\ Returned
    /\ res.tag = "Ok"
    /\ res.val.kind = "Array"
    /\ Len(res.val.elems) = 2
    /\ pos = Len(src)
    /\ \E i \in DOMAIN src : is_whitespace(src[i])
    /\ \E v \in ValuesIn(res.val) : v.kind = "Number"
    /\ \E v \in ValuesIn(res.val) : v.kind = "Object" /\ v.elems # <<>>

\* the hooks of the leaves and keys of a document as it was written, first
\* to last
RECURSIVE HooksOf(_)
RECURSIVE HooksOfAll(_, _)
HooksOf(d) ==
    IF d.k = "lit"
    THEN CASE d.text[1] = 110 -> <<"visit_null">>
           [] d.text[1] \in {116, 102} -> <<"visit_bool">>
           [] d.text[1] = QUOTE -> <<"visit_string">>
           [] OTHER -> <<"visit_number">>
    ELSE IF d.k = "arr" THEN HooksOfAll(d.elems, FALSE)
    ELSE HooksOfAll(d.pairs, TRUE)

HooksOfAll(ds, pairs) ==
    IF ds = <<>> THEN <<>>
    ELSE (IF pairs THEN <<"visit_key">> \o HooksOf(ds[1].value) ELSE HooksOf(ds[1]))
         \o HooksOfAll(Tail(ds), pairs)

\* C29: visit_value calls the hook of every leaf and key once, in the
\* order of the document, a key before its value, at every depth; and the
\* calls are the same whichever leaf hooks the visitor overrides
C29_VisitsEveryLeafInOrder ==
    (op = "visit_value" /\ input.family = "doc") =>
        /\ [k \in DOMAIN out.log |-> out.log[k].hook] = HooksOf(input.d)
        /\ \A k \in DOMAIN out.log :
              /\ out.log[k].node \in ValuesIn(res.val) \cup KeysIn(res.val)
              /\ out.log[k].custom <=> out.log[k].hook \in out.overridden
        /\ \A k \in DOMAIN out.log : \A j \in DOMAIN out.log :
              k < j => out.log[k].node.range.end <= out.log[j].node.range.start

\* a visitor that overrides visit_number went through an array holding an
\* array and an object: a number at depth two, a key and a string
C29_Witness ==
    /\ op = "visit_value"
    /\ input.family = "doc"
    /\ input.d \in NestedDocs
    /\ out.overridden = {"visit_number"}
    /\ [k \in DOMAIN out.log |-> out.log[k].hook] = <<"visit_number", "visit_key", "visit_string">>
    /\ out.log[1].custom
    /\ ~out.log[2].custom

=============================================================================
